---- MODULE Spec2Model ----
(***************************************************************************)
(* Model of the prism overlay's stats resolution, caching and nickname     *)
(* binding protocol (examples/overlay/get_stats.py and behaviour.py).      *)
(*                                                                         *)
(* Threads: the stats workers, each running get_stats_and_winstreak on a   *)
(* dequeued username, and one controlling thread that requests stats and   *)
(* runs set_nickname and set_hypixel_api_key.  Every access of shared      *)
(* state (a cache method, a block under a mutex) and every network call    *)
(* is one atomic step.                                                     *)
(***************************************************************************)
EXTENDS Naturals, Sequences, FiniteSets, TLC

\* ------------------------------------------------------------------ bounds
MaxCalls == 3       \* stats requests and set_nickname / set_hypixel_api_key calls
MaxNickOps == 3     \* set_nickname calls in a row, without workers
MaxOps == 3         \* log lines, main-thread operations and fetches of the lock model
MaxLines == 4       \* lines the thread reading the log reads
MaxTicks == 2       \* calls of should_redraw
MaxLog == 3         \* lines written to the log the key search reads
MaxTime == 2        \* the clock of the key search: polls after the first

\* ---------------------------------------------------------------- universe
None == "None"

Workers == {"w1", "w2"}

\* The accounts of the identity provider and the display names of the stats
\* provider; "OldNick" and "NewNick" are nicknames with no account.
UUIDs == {"u1", "u2"}
Names == {"Alex", "Bob", "OldNick", "NewNick"}
ApiKeys == {"key0", "key1"}

Mojang(name) ==
    CASE name = "Alex" -> "u1"
      [] name = "Bob" -> "u2"
      [] OTHER -> None

DisplayName(uuid) == IF uuid = "u1" THEN "Alex" ELSE "Bob"

\* The usernames stats are requested for, and the arguments of set_nickname.
LobbyNames == {"OldNick", "Alex"}
NickArgs == {"OldNick", "NewNick"}
UsernameArgs == {None, "Alex"}
\* The arguments of set_nickname when the calls are run in a row.
AllUsernameArgs == {None, "Alex", "Bob"}
\* What the denick API may answer for a nickname.
ApiDenickAnswers == {None, "u1"}

\* ------------------------------------------------------------------- state
VARIABLES
    cache,              \* controller.player_cache: key -> player record
    known_nicks,        \* controller.settings.known_nicks: nick -> NickValue
    default_database,   \* controller.nick_database.default_database: nick -> uuid
    hypixel_api_key,    \* controller.settings.hypixel_api_key
    controller_api_key, \* the key the controller's stats calls use
    api_key_invalid,    \* controller.api_key_invalid
    redraw_event,       \* controller.redraw_event
    requests_queue,     \* usernames waiting for a worker
    completed_queue,    \* usernames whose stats were downloaded
    wk,                 \* per worker: position and locals of get_stats_and_winstreak
    ctl,                \* position and locals of the controlling thread
    started,            \* number of requests and operations started so far
    stale,              \* history: <<nick, uuid>> bindings that have been changed away
    antisniper_api_key, \* controller.settings.antisniper_api_key
    use_antisniper_api, \* controller.settings.use_antisniper_api
    new_settings,       \* the argument of the update_settings call in progress
    mutex,              \* state.mutex, settings.mutex, nick_database.mutex: holder
    th,                 \* per thread: the operation it runs and its position in it
    state,              \* controller.state: the events applied, in order
    session,            \* controller.state: own username, lobby and party
    lg,                 \* the thread reading the log: its position and locals
    sr,                 \* should_redraw on the main thread: position and locals
    mocked,             \* the log file of the key search: lines, read position, clock
    ks,                 \* search_logfile_for_key: position and locals
    so,                 \* a Settings object and the SettingsDict it is compared with
    sn                  \* set_nickname run for an event of the log: position, locals

\* The settings of the secondary data source and update_settings' argument.
settings_vars == <<antisniper_api_key, use_antisniper_api, new_settings>>
\* The locks, the threads taking them and the session state.
lock_vars == <<mutex, th, state>>
\* The session state and the two threads that work on it.
session_vars == <<session, lg, sr>>
\* The key search in the log file, the Settings object, and the set_nickname
\* call that the thread reading the log makes for a nickname event.
interaction_vars == <<mocked, ks, so, sn>>

vars == <<cache, known_nicks, default_database, hypixel_api_key, controller_api_key,
          api_key_invalid, redraw_event, requests_queue, completed_queue, wk, ctl,
          started, stale, settings_vars, lock_vars, session_vars, interaction_vars>>

\* ---------------------------------------------------------- player records
\* Of the stats of a KnownPlayer the records keep the winstreaks: "reported"
\* by the stats provider, "missing", or "estimated" afterwards.
Absent ==
    [tag |-> "Absent", uuid |-> None, username |-> None, nick |-> None,
     winstreaks |-> None]
PendingPlayer(username) ==
    [tag |-> "Pending", uuid |-> None, username |-> username, nick |-> None,
     winstreaks |-> None]
NickedPlayer(nick) ==
    [tag |-> "Nicked", uuid |-> None, username |-> None, nick |-> nick,
     winstreaks |-> None]
KnownPlayer(uuid, username, nick) ==
    [tag |-> "Known", uuid |-> uuid, username |-> username, nick |-> nick,
     winstreaks |-> "reported"]

NoNickValue == [uuid |-> None, comment |-> None]
NickValue(uuid, comment) == [uuid |-> uuid, comment |-> comment]

NoPlayerdata == [displayname |-> None]
\* The stats provider's record of an account
Playerdata(uuid) == [displayname |-> DisplayName(uuid)]

\* Per worker, history of the run of get_stats_and_winstreak it is in: the
\* provider calls made (calls), and whether its key was invalidated while it
\* was fetching.
NoCalls == [identity |-> 0, denick |-> 0, stats |-> 0, winstreaks |-> 0]

IdleWorker ==
    [pc |-> "idle", username |-> None, uuid |-> None, nick |-> None,
     denicked |-> FALSE, site |-> "none", player |-> Absent, calls |-> NoCalls,
     invalidated |-> FALSE, estimated_winstreaks |-> None, aliases |-> <<>>]

\* op is the operation the controlling thread runs; dropped is history: the keys
\* whose records update_settings has removed from the cache
IdleCtl ==
    [pc |-> "idle", op |-> None, username |-> None, nick |-> None, uuid |-> None,
     old_nick |-> None, new_key |-> None, dropped |-> {}]

\* The positions of a worker between the cache miss of get_bedwars_stats
\* (get_stats.py:104) and its write of the result (get_stats.py:114).
InFlightPcs ==
    {"fetch_uuid", "dn_default", "dn_api", "dn_db", "fetch_data", "fetch_data2",
     "cache_alias", "cache_set"}

\* ------------------------------------------------------- locks and threads
Locks == {"state", "settings", "nick_database"}
\* The thread reading the log, the main thread and a stats worker.
Threads == {"logs", "main", "worker"}
\* What a log line parses to; None is a line that is no event.
Events == {None, "lobby_join", "new_nickname", "new_api_key"}
\* state.own_username when a nickname event is applied
OwnUsernames == {None, "Alex"}

\* The steps an operation takes, in program order.
Acquire(lock) == [kind |-> "acquire", what |-> lock]
Release(lock) == [kind |-> "release", what |-> lock]
Network(call) == [kind |-> "network", what |-> call]
Local(what) == [kind |-> "local", what |-> what]

IdleThread ==
    [op |-> None, event |-> None, steps |-> <<>>, pc |-> 1, count |-> 0,
     line |-> 0, tailing |-> FALSE, applying |-> FALSE]

\* ------------------------------------------------------------ session state
PartyRoles == {"leader", "moderators", "members"}
\* While a party list is coming in, pending_party holds per role the usernames
\* listed so far: <<>> before the first list of the role, then <<usernames>>.
EmptyPendingParty == [role \in PartyRoles |-> <<>>]
InitialSession ==
    [own_username |-> "Alex", lobby_players |-> {},
     party |-> [role \in PartyRoles |-> {}],
     party_list_incoming |-> FALSE, pending_party |-> EmptyPendingParty,
     in_game |-> FALSE]

\* events.py:51-150 - an event and the fields the events carry
Event(type) ==
    [type |-> type, username |-> None, usernames |-> {}, role |-> None,
     nick |-> None, key |-> None]
\* What parse_logline returns for a line that is no event.
NoEvent == Event(None)

\* The thread reading the log: fast_forward_state, then process_loglines.
\* event is what the last line parsed to and redraw what process_event
\* returned; lines, missed and after_miss are history: the lines read, whether
\* one parsed to no event, and whether an event was applied after that.
IdleLogs ==
    [mode |-> "fast_forward_state", pc |-> "parse_logline", event |-> NoEvent,
     redraw |-> FALSE, lines |-> 0, missed |-> FALSE, after_miss |-> FALSE]

\* should_redraw: redraw and username are its locals; calls, entry (the flag
\* at entry), hit (a username taken off the queue was in the lobby when it was
\* looked up), cleared and returned are history of the last call.
IdleShouldRedraw ==
    [pc |-> "idle", redraw |-> FALSE, username |-> None, calls |-> 0,
     entry |-> FALSE, hit |-> FALSE, cleared |-> FALSE, returned |-> FALSE]

\* update_settings' argument while update_settings is not running.
NoSettings ==
    [hypixel_api_key |-> None, antisniper_api_key |-> None,
     use_antisniper_api |-> FALSE, known_nicks |-> [n \in Names |-> NoNickValue]]

\* ------------------------------------------------------------ player cache
\* PlayerCache: every method is one atomic step under the cache lock.
get_cached_player(c, key) == c[key]
set_cached_player(c, key, player) == [c EXCEPT ![key] = player]
uncache_player(c, key) == [c EXCEPT ![key] = Absent]
clear_cache(c) == [key \in DOMAIN c |-> Absent]

\* controller.get_player_data(uuid) answers with the account's record, or
\* with nothing (not found, no connection, a rejected key).
get_player_data(uuid) == {Playerdata(uuid), NoPlayerdata}

\* controller.get_uuid(username) answers with the account's uuid, or with
\* nothing (no such account, no connection).
get_uuid(username) == {Mojang(username), None}

\* NickDatabase: get_default reads the default database, get searches every
\* database in order; the overlay is run with the default database only.
nick_database_get_default(db, nick) == db[nick]
nick_database_get(db, nick) == db[nick]

\* ------------------------------------------------------------ init
EmptyTable == [n \in Names |-> NoNickValue]
\* The persisted tables the overlay may be started with.
BoundTable == [EmptyTable EXCEPT !["OldNick"] = NickValue("u1", "teammate")]
InitialKnownNicks == {EmptyTable, BoundTable}

\* The default database is seeded from settings.known_nicks at startup.
SeedDefaultDatabase(kn) == [n \in DOMAIN kn |-> kn[n].uuid]

\* ------------------------------------------------- key search and settings
\* Line of mock_utils: the time the line was written and its text.
Line(time, content) == [time |-> time, content |-> content]
\* MockedFile, MockedTime and MockedPath: the lines, the read position, the
\* clock of the thread and the times at which the path was opened.
MockedFile(lines) ==
    [lines |-> lines, content_index |-> 0, current_time |-> 0, calls |-> <<>>]
IdleMocked == MockedFile(<<>>)
\* search_logfile_for_key: completed is the stop event it was called with,
\* found_key the key of the last key line read, result what it returned.
IdleSearch ==
    [pc |-> "idle", completed |-> FALSE, found_key |-> None, result |-> None]

\* Settings: the fields of the dataclass and the path of the settings file.
Settings(hypixel, antisniper, use, kn, show, path) ==
    [hypixel_api_key |-> hypixel, antisniper_api_key |-> antisniper,
     use_antisniper_api |-> use, known_nicks |-> kn, show_on_tab |-> show,
     path |-> path]
\* SettingsDict as the settings file holds it: the fields without the path.
SettingsFileDict(hypixel, antisniper, use, kn, show) ==
    [hypixel_api_key |-> hypixel, antisniper_api_key |-> antisniper,
     use_antisniper_api |-> use, known_nicks |-> kn, show_on_tab |-> show]
\* Settings.to_dict
to_dict(s) ==
    SettingsFileDict(s.hypixel_api_key, s.antisniper_api_key, s.use_antisniper_api,
                     s.known_nicks, s.show_on_tab)
\* Settings.from_dict(source, path)
from_dict(source, path) ==
    Settings(source.hypixel_api_key, source.antisniper_api_key,
             source.use_antisniper_api, source.known_nicks, source.show_on_tab, path)
\* The settings a new installation starts with and their dict.
IdleSettingsObject ==
    [settings |-> Settings("key0", None, FALSE, EmptyTable, TRUE, "settings.toml"),
     dict |-> SettingsFileDict("key0", None, FALSE, EmptyTable, TRUE),
     op |-> "idle"]

InitOverlay(tables, mode) ==
    /\ cache = [k \in Names |-> Absent]
    /\ known_nicks \in tables
    /\ default_database = SeedDefaultDatabase(known_nicks)
    /\ hypixel_api_key = "key0"
    /\ controller_api_key = "key0"
    /\ api_key_invalid = FALSE
    /\ redraw_event = FALSE
    /\ requests_queue = <<>>
    /\ completed_queue = <<>>
    /\ wk = [w \in Workers |-> IdleWorker]
    /\ ctl = IdleCtl
    /\ started = 0
    /\ stale = {}
    /\ antisniper_api_key = None
    /\ use_antisniper_api = FALSE
    /\ new_settings = NoSettings
    /\ mutex = [lock \in Locks |-> None]
    /\ th = [t \in Threads |-> IdleThread]
    /\ state = <<>>
    /\ session = InitialSession
    /\ lg = [IdleLogs EXCEPT !.mode = mode]
    /\ sr = IdleShouldRedraw

\* No key search is running and no settings are being converted.
InitIn(tables, mode) ==
    /\ InitOverlay(tables, mode)
    /\ mocked = IdleMocked
    /\ ks = IdleSearch
    /\ so = IdleSettingsObject
    /\ sn = IdleCtl

InitWith(tables) == InitIn(tables, "fast_forward_state")
Init == InitWith({BoundTable})
\* fast_forward_state found no event in the log: process_loglines begins.
InitTailing == InitIn({BoundTable}, "process_loglines")
InitNick == InitWith(InitialKnownNicks)

\* ------------------------------------------------------- get_bedwars_stats
\* (mutant of CacheHit: a failed fetch, cached as Nicked, is fetched again)
CacheHit_RetriesNicked(cached_stats) == cached_stats.tag = "Known"

\* get_stats.py:99 - a cached record counts unless it is a PendingPlayer
CacheHit(cached_stats) ==
    cached_stats.tag # "Absent" /\ cached_stats.tag # "Pending"

\* (mutant of FetchResult: a denicked player keeps the username asked for)
FetchResult_KeepsInputName(username, uuid, nick, playerdata) ==
    IF playerdata = NoPlayerdata
    THEN NickedPlayer(username)
    ELSE KnownPlayer(uuid, username, nick)

\* get_stats.py:80-89 - the result of fetch_bedwars_stats
FetchResult(username, uuid, nick, playerdata) ==
    IF playerdata = NoPlayerdata
    THEN NickedPlayer(username)
    ELSE KnownPlayer(uuid,
                     IF nick # None THEN playerdata.displayname ELSE username,
                     nick)

\* get_stats.py:108 - the record is also stored under the real username
NeedsAliasWrite(player) == player.tag = "Known" /\ player.nick # None

\* (mutant of WithoutNick: the copy under the real username keeps the nick)
WithoutNick_KeepsNick(player) == player

\* get_stats.py:111 - replace(player, nick=None)
WithoutNick(player) == [player EXCEPT !.nick = None]

\* The worker's locals once fetch_bedwars_stats has returned player.
Returned(l, player) ==
    [l EXCEPT !.player = player,
              !.pc = IF NeedsAliasWrite(player) THEN "cache_alias" ELSE "cache_set"]

\* (mutant of DenickReturned: stats are fetched although no uuid was found)
DenickReturned_FetchesAnyway(l, denick_result) ==
    IF l.site = "first"
    THEN [l EXCEPT !.uuid = IF denick_result # None THEN denick_result ELSE "u1",
                   !.nick = l.username, !.denicked = TRUE, !.pc = "fetch_data"]
    ELSE IF denick_result # None
         THEN [l EXCEPT !.uuid = denick_result, !.nick = l.username,
                        !.pc = "fetch_data2"]
         ELSE Returned(l, FetchResult(l.username, l.uuid, l.nick, NoPlayerdata))

\* The worker's locals once denick has returned denick_result:
\* get_stats.py:51-60 at the first call, get_stats.py:72-82 at the second.
DenickReturned(l, denick_result) ==
    IF l.site = "first"
    THEN IF denick_result # None
         THEN [l EXCEPT !.uuid = denick_result, !.nick = l.username,
                        !.denicked = TRUE, !.pc = "fetch_data"]
         ELSE Returned(l, NickedPlayer(l.username))
    ELSE IF denick_result # None
         THEN [l EXCEPT !.uuid = denick_result, !.nick = l.username,
                        !.pc = "fetch_data2"]
         ELSE Returned(l, FetchResult(l.username, l.uuid, l.nick, NoPlayerdata))

\* (mutant of StatsReturned: denick is tried after every failed fetch)
StatsReturned_RetriesDenicked(l, playerdata) ==
    IF playerdata = NoPlayerdata
    THEN [l EXCEPT !.site = "second", !.pc = "dn_default"]
    ELSE Returned(l, FetchResult(l.username, l.uuid, l.nick, playerdata))

\* The worker's locals after get_player_data answered at get_stats.py:62:
\* a failed fetch of a lookup that was not denicked tries denick (line 68).
StatsReturned(l, playerdata) ==
    IF ~l.denicked /\ playerdata = NoPlayerdata
    THEN [l EXCEPT !.site = "second", !.pc = "dn_default"]
    ELSE Returned(l, FetchResult(l.username, l.uuid, l.nick, playerdata))

Bump(l, kind) == [l EXCEPT !.calls[kind] = @ + 1]

\* --------------------------------------------------------------- requests
\* The requester looks the username up; for a username with no record it
\* stores a PendingPlayer and puts the username on the requests queue.
Request(username) ==
    /\ started < MaxCalls
    /\ get_cached_player(cache, username) = Absent
    /\ cache' = set_cached_player(cache, username, PendingPlayer(username))
    /\ requests_queue' = Append(requests_queue, username)
    /\ started' = started + 1
    /\ UNCHANGED <<known_nicks, default_database, hypixel_api_key, controller_api_key,
                   api_key_invalid, redraw_event, completed_queue, wk, ctl, stale,
                   settings_vars, lock_vars, session_vars,
                   interaction_vars>>

\* ---------------------------------------------------------------- workers
\* The workers are identical: of the idle workers the first takes the username.
FirstIdle == IF wk["w1"].pc = "idle" THEN "w1" ELSE "w2"

\* A worker takes a username off the requests queue, installs a Pending
\* record under it and runs get_stats_and_winstreak.
Dequeue(w) ==
    /\ wk[w].pc = "idle"
    /\ w = FirstIdle
    /\ requests_queue # <<>>
    /\ LET username == Head(requests_queue) IN
        /\ cache' = set_cached_player(cache, username, PendingPlayer(username))
        /\ wk' = [wk EXCEPT ![w] = [IdleWorker EXCEPT !.pc = "gbs", !.username = username]]
    /\ requests_queue' = Tail(requests_queue)
    /\ UNCHANGED <<known_nicks, default_database, hypixel_api_key, controller_api_key,
                   api_key_invalid, redraw_event, completed_queue, ctl, started,
                   stale,
                   settings_vars, lock_vars, session_vars,
                   interaction_vars>>

WorkerLocal(w) ==
    UNCHANGED <<cache, known_nicks, default_database, hypixel_api_key,
                controller_api_key, api_key_invalid, redraw_event, requests_queue,
                completed_queue, ctl, started, stale,
                   settings_vars, lock_vars, session_vars,
                   interaction_vars>>

\* (mutant of GetCached: a Pending record counts as a cache hit)
GetCached_HitsPending(w) ==
    /\ wk[w].pc = "gbs"
    /\ LET cached_stats == get_cached_player(cache, wk[w].username) IN
        wk' = [wk EXCEPT ![w] =
                IF cached_stats.tag # "Absent"
                THEN [@ EXCEPT !.player = cached_stats, !.pc = "put"]
                ELSE [@ EXCEPT !.pc = "fetch_uuid"]]
    /\ WorkerLocal(w)

\* get_stats.py:97-104
GetCached(w) ==
    /\ wk[w].pc = "gbs"
    /\ LET cached_stats == get_cached_player(cache, wk[w].username) IN
        wk' = [wk EXCEPT ![w] =
                IF CacheHit(cached_stats)
                THEN [@ EXCEPT !.player = cached_stats, !.pc = "put"]
                ELSE [@ EXCEPT !.pc = "fetch_uuid"]]
    /\ WorkerLocal(w)

\* get_stats.py:45-50 - controller.get_uuid(username)
GetUuid(w) ==
    /\ wk[w].pc = "fetch_uuid"
    /\ \E uuid \in get_uuid(wk[w].username) :
        wk' = [wk EXCEPT ![w] =
                IF uuid = None
                THEN [Bump(@, "identity") EXCEPT !.site = "first", !.pc = "dn_default"]
                ELSE [Bump(@, "identity") EXCEPT !.uuid = uuid, !.pc = "fetch_data"]]
    /\ WorkerLocal(w)

\* (mutant of DenickDefault: the API is asked before any table is read)
DenickDefault_Skipped(w) ==
    /\ wk[w].pc = "dn_default"
    /\ wk' = [wk EXCEPT ![w].pc = "dn_api"]
    /\ WorkerLocal(w)

\* get_stats.py:17-22 - denick: the default database
DenickDefault(w) ==
    /\ wk[w].pc = "dn_default"
    /\ LET uuid == nick_database_get_default(default_database, wk[w].username) IN
        wk' = [wk EXCEPT ![w] =
                IF uuid # None THEN DenickReturned(@, uuid)
                ELSE [@ EXCEPT !.pc = "dn_api"]]
    /\ WorkerLocal(w)

\* get_stats.py:24-28 - denick: controller.denick(nick)
DenickApi(w) ==
    /\ wk[w].pc = "dn_api"
    /\ \E uuid \in ApiDenickAnswers :
        wk' = [wk EXCEPT ![w] =
                IF uuid # None THEN DenickReturned(Bump(@, "denick"), uuid)
                ELSE [Bump(@, "denick") EXCEPT !.pc = "dn_db"]]
    /\ WorkerLocal(w)

\* get_stats.py:30-38 - denick: nick_database.get(nick)
DenickDatabase(w) ==
    /\ wk[w].pc = "dn_db"
    /\ wk' = [wk EXCEPT ![w] =
                DenickReturned(@, nick_database_get(default_database, @.username))]
    /\ WorkerLocal(w)

\* get_stats.py:62-68
FetchData(w) ==
    /\ wk[w].pc = "fetch_data"
    /\ \E playerdata \in get_player_data(wk[w].uuid) :
        wk' = [wk EXCEPT ![w] = StatsReturned(Bump(@, "stats"), playerdata)]
    /\ WorkerLocal(w)

\* (mutant of FetchDataAgain: a failed refetch goes back to denick)
FetchDataAgain_Loops(w) ==
    /\ wk[w].pc = "fetch_data2"
    /\ \E playerdata \in get_player_data(wk[w].uuid) :
        wk' = [wk EXCEPT ![w] =
                IF playerdata = NoPlayerdata
                THEN [Bump(@, "stats") EXCEPT !.pc = "dn_default"]
                ELSE Returned(Bump(@, "stats"),
                              FetchResult(@.username, @.uuid, @.nick, playerdata))]
    /\ WorkerLocal(w)

\* get_stats.py:77-89
FetchDataAgain(w) ==
    /\ wk[w].pc = "fetch_data2"
    /\ \E playerdata \in get_player_data(wk[w].uuid) :
        wk' = [wk EXCEPT ![w] =
                Returned(Bump(@, "stats"),
                         FetchResult(@.username, @.uuid, @.nick, playerdata))]
    /\ WorkerLocal(w)

\* get_stats.py:108-112
CacheAlias(w) ==
    /\ wk[w].pc = "cache_alias"
    /\ cache' = set_cached_player(cache, wk[w].player.username, WithoutNick(wk[w].player))
    /\ wk' = [wk EXCEPT ![w].pc = "cache_set"]
    /\ UNCHANGED <<known_nicks, default_database, hypixel_api_key, controller_api_key,
                   api_key_invalid, redraw_event, requests_queue, completed_queue, ctl,
                   started, stale,
                   settings_vars, lock_vars, session_vars,
                   interaction_vars>>

\* (mutant of CacheSet: a fetch whose Pending record is gone drops its result)
CacheSet_CancelledIfInvalidated(w) ==
    /\ wk[w].pc = "cache_set"
    /\ cache' = IF get_cached_player(cache, wk[w].username).tag = "Pending"
                THEN set_cached_player(cache, wk[w].username, wk[w].player)
                ELSE cache
    /\ wk' = [wk EXCEPT ![w].pc = "put"]
    /\ UNCHANGED <<known_nicks, default_database, hypixel_api_key, controller_api_key,
                   api_key_invalid, redraw_event, requests_queue, completed_queue, ctl,
                   started, stale,
                   settings_vars, lock_vars, session_vars,
                   interaction_vars>>

\* get_stats.py:114-116
CacheSet(w) ==
    /\ wk[w].pc = "cache_set"
    /\ cache' = set_cached_player(cache, wk[w].username, wk[w].player)
    /\ wk' = [wk EXCEPT ![w].pc = "put"]
    /\ UNCHANGED <<known_nicks, default_database, hypixel_api_key, controller_api_key,
                   api_key_invalid, redraw_event, requests_queue, completed_queue, ctl,
                   started, stale,
                   settings_vars, lock_vars, session_vars,
                   interaction_vars>>

\* (mutant of PutCompleted: only a Known result is announced)
PutCompleted_OnlyKnown(w) ==
    /\ wk[w].pc = "put"
    /\ completed_queue' = IF wk[w].player.tag = "Known"
                          THEN Append(completed_queue, wk[w].username)
                          ELSE completed_queue
    /\ wk' = [wk EXCEPT ![w].pc = "idle"]
    /\ UNCHANGED <<cache, known_nicks, default_database, hypixel_api_key,
                   controller_api_key, api_key_invalid, redraw_event, requests_queue,
                   ctl, started, stale,
                   settings_vars, lock_vars, session_vars,
                   interaction_vars>>

\* behaviour.py:158 - completed_queue.put(username)
PutCompleted(w) ==
    /\ wk[w].pc = "put"
    /\ completed_queue' = Append(completed_queue, wk[w].username)
    /\ wk' = [wk EXCEPT ![w].pc = "idle"]
    /\ UNCHANGED <<cache, known_nicks, default_database, hypixel_api_key,
                   controller_api_key, api_key_invalid, redraw_event, requests_queue,
                   ctl, started, stale,
                   settings_vars, lock_vars, session_vars,
                   interaction_vars>>

\* ------------------------------------------------------------ set_nickname
\* History of the persisted bindings: a <<nick, uuid>> pair is stale once the
\* nick was bound to uuid and is no longer.
StaleAfter(st, kn, kn2) ==
    {p \in st : kn2[p[1]].uuid # p[2]}
    \cup {<<n, kn[n].uuid>> : n \in {m \in DOMAIN kn : kn[m].uuid # None
                                                        /\ kn2[m].uuid # kn[m].uuid}}

\* dict.pop(key, None), and dict[key] = value
Pop(table, key, empty) == IF key = None THEN table ELSE [table EXCEPT ![key] = empty]
Put(table, key, value) == [table EXCEPT ![key] = value]

\* (mutant of SetNicknameSettings: the entry of the old nick is not removed)
SetNicknameSettings_KeepsOld(kn, uuid, username, nick, old_nick) ==
    IF uuid # None /\ username # None
    THEN LET found == {n \in DOMAIN kn : kn[n].uuid = uuid} IN
         IF found # {}
         THEN {[known_nicks |-> Put(kn, nick, kn[n]), old_nick |-> n] : n \in found}
         ELSE {[known_nicks |-> Put(kn, nick, NickValue(uuid, username)),
                old_nick |-> None]}
    ELSE {[known_nicks |-> Pop(kn, old_nick, NoNickValue), old_nick |-> old_nick]}

\* behaviour.py:36-58 - the block under settings.mutex.  The outcomes are the
\* new known_nicks with the old_nick the search leaves behind: the loop stops
\* at an entry of known_nicks with this uuid, whichever comes first.
SetNicknameSettings(kn, uuid, username, nick, old_nick) ==
    IF uuid # None /\ username # None
    THEN LET found == {n \in DOMAIN kn : kn[n].uuid = uuid} IN
         IF found # {}
         THEN {[known_nicks |-> Put(Pop(kn, n, NoNickValue), nick, kn[n]),
                old_nick |-> n] : n \in found}
         ELSE {[known_nicks |-> Put(kn, nick, NickValue(uuid, username)),
                old_nick |-> None]}
    ELSE {[known_nicks |-> Pop(kn, old_nick, NoNickValue), old_nick |-> old_nick]}

\* (mutant of SetNicknameDatabase: the old nick stays in the default database)
SetNicknameDatabase_KeepsOld(db, uuid, nick, old_nick) ==
    IF uuid # None THEN Put(db, nick, uuid) ELSE Pop(db, old_nick, None)

\* behaviour.py:60-67 - the block under nick_database.mutex
SetNicknameDatabase(db, uuid, nick, old_nick) ==
    LET popped == Pop(db, old_nick, None) IN
    IF uuid # None THEN Put(popped, nick, uuid) ELSE popped

CtlUnchanged ==
    UNCHANGED <<requests_queue, completed_queue>>

\* History: the workers fetching one of the keys have had their key invalidated.
Invalidated(keys) ==
    [w \in Workers |->
        IF wk[w].pc \in InFlightPcs /\ wk[w].username \in keys
        THEN [wk[w] EXCEPT !.invalidated = TRUE] ELSE wk[w]]

\* behaviour.py:16-34 - set_nickname is called; without a username the entry
\* of the nick is to be deleted
SetNicknameCall(username, nick) ==
    /\ ctl.pc = "idle"
    /\ started' = started + 1
    /\ ctl' = IF username # None
              THEN [IdleCtl EXCEPT !.pc = "sn_get_uuid", !.op = "set_nickname",
                                   !.username = username,
                                   !.nick = nick]
              ELSE [IdleCtl EXCEPT !.pc = "sn_settings", !.op = "set_nickname",
                                   !.nick = nick,
                                   !.old_nick = nick]
    /\ CtlUnchanged /\ UNCHANGED wk
    /\ UNCHANGED <<cache, known_nicks, default_database, hypixel_api_key,
                   controller_api_key, api_key_invalid, redraw_event, stale,
                   settings_vars, lock_vars, session_vars,
                   interaction_vars>>

\* (mutant of SetNicknameGetUuid: a failed lookup leaves old_nick as it is)
SetNicknameGetUuid_KeepsOnFailure ==
    /\ ctl.pc = "sn_get_uuid"
    /\ \E uuid \in get_uuid(ctl.username) :
        ctl' = [ctl EXCEPT !.uuid = uuid, !.pc = "sn_settings"]
    /\ CtlUnchanged /\ UNCHANGED wk
    /\ UNCHANGED <<cache, known_nicks, default_database, hypixel_api_key,
                   controller_api_key, api_key_invalid, redraw_event, started, stale,
                   settings_vars, lock_vars, session_vars,
                   interaction_vars>>

\* behaviour.py:25-30 - controller.get_uuid(username); on a failure the entry
\* of the nick is to be deleted
SetNicknameGetUuid ==
    /\ ctl.pc = "sn_get_uuid"
    /\ \E uuid \in get_uuid(ctl.username) :
        ctl' = [ctl EXCEPT !.uuid = uuid,
                           !.old_nick = IF uuid = None THEN ctl.nick ELSE None,
                           !.pc = "sn_settings"]
    /\ CtlUnchanged /\ UNCHANGED wk
    /\ UNCHANGED <<cache, known_nicks, default_database, hypixel_api_key,
                   controller_api_key, api_key_invalid, redraw_event, started, stale,
                   settings_vars, lock_vars, session_vars,
                   interaction_vars>>

\* behaviour.py:36-58
SetNicknameStore ==
    /\ ctl.pc = "sn_settings"
    /\ \E out \in SetNicknameSettings(known_nicks, ctl.uuid, ctl.username, ctl.nick,
                                      ctl.old_nick) :
        /\ known_nicks' = out.known_nicks
        /\ ctl' = [ctl EXCEPT !.old_nick = out.old_nick, !.pc = "sn_database"]
    /\ stale' = StaleAfter(stale, known_nicks, known_nicks')
    /\ CtlUnchanged /\ UNCHANGED wk
    /\ UNCHANGED <<cache, default_database, hypixel_api_key, controller_api_key,
                   api_key_invalid, redraw_event, started,
                   settings_vars, lock_vars, session_vars,
                   interaction_vars>>

\* behaviour.py:60-67
SetNicknameDefault ==
    /\ ctl.pc = "sn_database"
    /\ default_database' =
            SetNicknameDatabase(default_database, ctl.uuid, ctl.nick, ctl.old_nick)
    /\ ctl' = [ctl EXCEPT !.pc = IF ctl.old_nick # None THEN "sn_uncache_old"
                                 ELSE "sn_uncache_nick"]
    /\ CtlUnchanged /\ UNCHANGED wk
    /\ UNCHANGED <<cache, known_nicks, hypixel_api_key, controller_api_key,
                   api_key_invalid, redraw_event, started, stale,
                   settings_vars, lock_vars, session_vars,
                   interaction_vars>>

\* behaviour.py:69-71
SetNicknameUncacheOld ==
    /\ ctl.pc = "sn_uncache_old"
    /\ cache' = uncache_player(cache, ctl.old_nick)
    /\ wk' = Invalidated({ctl.old_nick})
    /\ ctl' = [ctl EXCEPT !.pc = "sn_uncache_nick"]
    /\ CtlUnchanged
    /\ UNCHANGED <<known_nicks, default_database, hypixel_api_key, controller_api_key,
                   api_key_invalid, redraw_event, started, stale,
                   settings_vars, lock_vars, session_vars,
                   interaction_vars>>

\* behaviour.py:73-74
SetNicknameUncacheNick ==
    /\ ctl.pc = "sn_uncache_nick"
    /\ cache' = uncache_player(cache, ctl.nick)
    /\ wk' = Invalidated({ctl.nick})
    /\ ctl' = [ctl EXCEPT !.pc = "sn_redraw"]
    /\ CtlUnchanged
    /\ UNCHANGED <<known_nicks, default_database, hypixel_api_key, controller_api_key,
                   api_key_invalid, redraw_event, started, stale,
                   settings_vars, lock_vars, session_vars,
                   interaction_vars>>

\* behaviour.py:76
SetNicknameRedraw ==
    /\ ctl.pc = "sn_redraw"
    /\ redraw_event' = TRUE
    /\ ctl' = IdleCtl
    /\ CtlUnchanged /\ UNCHANGED wk
    /\ UNCHANGED <<cache, known_nicks, default_database, hypixel_api_key,
                   controller_api_key, api_key_invalid, started, stale,
                   settings_vars, lock_vars, session_vars,
                   interaction_vars>>

\* ----------------------------------------------------- set_hypixel_api_key
\* behaviour.py:79-82
SetHypixelApiKeyCall(new_key) ==
    /\ ctl.pc = "idle"
    /\ started' = started + 1
    /\ controller_api_key' = new_key
    /\ api_key_invalid' = FALSE
    /\ ctl' = [IdleCtl EXCEPT !.pc = "key_settings", !.op = "set_hypixel_api_key",
                             !.new_key = new_key]
    /\ CtlUnchanged /\ UNCHANGED wk
    /\ UNCHANGED <<cache, known_nicks, default_database, hypixel_api_key,
                   redraw_event, stale,
                   settings_vars, lock_vars, session_vars,
                   interaction_vars>>

\* behaviour.py:84-86
SetHypixelApiKeyStore ==
    /\ ctl.pc = "key_settings"
    /\ hypixel_api_key' = ctl.new_key
    /\ ctl' = [ctl EXCEPT !.pc = "key_clear"]
    /\ CtlUnchanged /\ UNCHANGED wk
    /\ UNCHANGED <<cache, known_nicks, default_database, controller_api_key,
                   api_key_invalid, redraw_event, started, stale,
                   settings_vars, lock_vars, session_vars,
                   interaction_vars>>

\* (mutant of SetHypixelApiKeyClear: the cache is not cleared)
SetHypixelApiKeyClear_Forgotten ==
    /\ ctl.pc = "key_clear"
    /\ ctl' = IdleCtl
    /\ UNCHANGED <<cache, wk, known_nicks, default_database, hypixel_api_key,
                   controller_api_key, api_key_invalid, redraw_event, started, stale,
                   requests_queue, completed_queue,
                   settings_vars, lock_vars, session_vars,
                   interaction_vars>>

\* behaviour.py:88-89
SetHypixelApiKeyClear ==
    /\ ctl.pc = "key_clear"
    /\ cache' = clear_cache(cache)
    /\ wk' = Invalidated(Names)
    /\ ctl' = IdleCtl
    /\ CtlUnchanged
    /\ UNCHANGED <<known_nicks, default_database, hypixel_api_key, controller_api_key,
                   api_key_invalid, redraw_event, started, stale,
                   settings_vars, lock_vars, session_vars,
                   interaction_vars>>

Next ==
    \/ \E username \in LobbyNames : Request(username)
    \/ \E w \in Workers : Dequeue(w)
    \/ \E w \in Workers : GetCached(w)
    \/ \E w \in Workers : GetUuid(w)
    \/ \E w \in Workers : DenickDefault(w)
    \/ \E w \in Workers : DenickApi(w)
    \/ \E w \in Workers : DenickDatabase(w)
    \/ \E w \in Workers : FetchData(w)
    \/ \E w \in Workers : FetchDataAgain(w)
    \/ \E w \in Workers : CacheAlias(w)
    \/ \E w \in Workers : CacheSet(w)
    \/ \E w \in Workers : PutCompleted(w)
    \/ /\ started < MaxCalls
       /\ \E username \in UsernameArgs, nick \in NickArgs : SetNicknameCall(username, nick)
    \/ SetNicknameGetUuid
    \/ SetNicknameStore
    \/ SetNicknameDefault
    \/ SetNicknameUncacheOld
    \/ SetNicknameUncacheNick
    \/ SetNicknameRedraw
    \/ /\ started < MaxCalls
       /\ \E new_key \in ApiKeys : SetHypixelApiKeyCall(new_key)
    \/ SetHypixelApiKeyStore
    \/ SetHypixelApiKeyClear

Spec == Init /\ [][Next]_vars

\* set_nickname calls run one after the other, no stats being fetched
NextNick ==
    \/ /\ started < MaxNickOps
       /\ \E username \in AllUsernameArgs, nick \in NickArgs :
            SetNicknameCall(username, nick)
    \/ SetNicknameGetUuid
    \/ SetNicknameStore
    \/ SetNicknameDefault
    \/ SetNicknameUncacheOld
    \/ SetNicknameUncacheNick
    \/ SetNicknameRedraw

SpecNick == InitNick /\ [][NextNick]_vars

\* ================================================================= fetches
\* The workers alone: stats are requested and fetched, nothing is invalidated.
WorkerStep(w) ==
    \/ Dequeue(w)
    \/ GetCached(w)
    \/ GetUuid(w)
    \/ DenickDefault(w)
    \/ DenickApi(w)
    \/ DenickDatabase(w)
    \/ FetchData(w)
    \/ FetchDataAgain(w)
    \/ CacheAlias(w)
    \/ CacheSet(w)
    \/ PutCompleted(w)

NextFetch ==
    \/ \E username \in LobbyNames : Request(username)
    \/ \E w \in Workers : WorkerStep(w)

\* A worker thread that can take a step takes one: every provider call
\* answers or times out, and no step of a fetch waits for another thread.
SpecFetch ==
    InitNick /\ [][NextFetch]_vars /\ \A w \in Workers : WF_vars(WorkerStep(w))

\* ========================================================= update_settings
AntisniperKeys == {None, "akey"}

\* SettingsDict
SettingsDict(hypixel, antisniper, use, kn) ==
    [hypixel_api_key |-> hypixel, antisniper_api_key |-> antisniper,
     use_antisniper_api |-> use, known_nicks |-> kn]

\* The known_nicks tables of the settings window: none, "OldNick" bound to u1,
\* the same with another comment, "OldNick" bound to u2, u1 under "NewNick".
CommentedTable == [EmptyTable EXCEPT !["OldNick"] = NickValue("u1", "Alex")]
ReboundTable == [EmptyTable EXCEPT !["OldNick"] = NickValue("u2", "Bob")]
MovedTable == [EmptyTable EXCEPT !["NewNick"] = NickValue("u1", "teammate")]
SettingsTables == {EmptyTable, BoundTable, CommentedTable, ReboundTable, MovedTable}

NewSettings ==
    {SettingsDict(hypixel, antisniper, use, kn) :
        hypixel \in ApiKeys, antisniper \in AntisniperKeys, use \in BOOLEAN,
        kn \in SettingsTables}

\* What a fetch of the key leaves in the cache under the bindings kn.
FetchedRecord(kn, key) ==
    IF kn[key].uuid # None
    THEN KnownPlayer(kn[key].uuid, DisplayName(kn[key].uuid), key)
    ELSE IF Mojang(key) # None THEN KnownPlayer(Mojang(key), key, None)
    ELSE NickedPlayer(key)

CachedKeys == {"OldNick", "NewNick", "Alex"}

\* The overlay with some stats downloaded and the settings window open.
InitSettings ==
    /\ known_nicks \in SettingsTables
    /\ default_database = SeedDefaultDatabase(known_nicks)
    /\ \E fetched \in SUBSET CachedKeys :
        cache = [key \in Names |->
                    IF key \in fetched THEN FetchedRecord(known_nicks, key) ELSE Absent]
    /\ hypixel_api_key \in ApiKeys
    /\ controller_api_key = hypixel_api_key
    /\ antisniper_api_key \in AntisniperKeys
    /\ use_antisniper_api \in BOOLEAN
    /\ new_settings = NoSettings
    /\ api_key_invalid = FALSE
    /\ redraw_event = FALSE
    /\ requests_queue = <<>>
    /\ completed_queue = <<>>
    /\ wk = [w \in Workers |-> IdleWorker]
    /\ ctl = IdleCtl
    /\ started = 0
    /\ stale = {}
    /\ mutex = [lock \in Locks |-> None]
    /\ th = [t \in Threads |-> IdleThread]
    /\ state = <<>>
    /\ session = InitialSession
    /\ lg = IdleLogs
    /\ sr = IdleShouldRedraw
    /\ mocked = IdleMocked
    /\ ks = IdleSearch
    /\ so = IdleSettingsObject
    /\ sn = IdleCtl

\* behaviour.py:194-196
hypixel_api_key_changed == new_settings.hypixel_api_key # hypixel_api_key
\* behaviour.py:198-200
antisniper_api_key_changed == new_settings.antisniper_api_key # antisniper_api_key
\* behaviour.py:202-204
use_antisniper_api_changed == new_settings.use_antisniper_api # use_antisniper_api

\* (mutant of potential_antisniper_updates: only a changed key counts)
potential_antisniper_updates_KeyOnly ==
    antisniper_api_key_changed /\ new_settings.use_antisniper_api

\* behaviour.py:207-215
potential_antisniper_updates ==
    \/ antisniper_api_key_changed /\ new_settings.use_antisniper_api
    \/ use_antisniper_api_changed /\ new_settings.antisniper_api_key # None

\* behaviour.py:218-223 - the entries of the nickname are compared as a whole
uuid_changed(nickname) == new_settings.known_nicks[nickname] # known_nicks[nickname]

\* dict.keys()
Keys(kn) == {nickname \in DOMAIN kn : kn[nickname] # NoNickValue}

\* behaviour.py:225-232
new_nicknames == Keys(new_settings.known_nicks)
old_nicknames == Keys(known_nicks)
added_nicknames == new_nicknames \ old_nicknames
removed_nicknames == old_nicknames \ new_nicknames
updated_nicknames == {nickname \in new_nicknames \cap old_nicknames : uuid_changed(nickname)}

SettingsUnchanged ==
    UNCHANGED <<controller_api_key, api_key_invalid, requests_queue, completed_queue,
                wk, started, stale, lock_vars, session_vars,
                   interaction_vars>>

\* behaviour.py:186-232 - update_settings is called with a settings dict
UpdateSettingsCall(settings) ==
    /\ ctl.pc = "idle"
    /\ new_settings' = settings
    /\ ctl' = [IdleCtl EXCEPT !.pc = "us_cache", !.op = "update_settings"]
    /\ UNCHANGED <<cache, known_nicks, default_database, hypixel_api_key,
                   antisniper_api_key, use_antisniper_api, redraw_event>>
    /\ SettingsUnchanged

\* behaviour.py:234-246 - the keys update_settings removes from the cache: all
\* of them, or the nicknames added, removed or updated.
UpdateSettingsUncached ==
    IF hypixel_api_key_changed \/ potential_antisniper_updates THEN Names
    ELSE added_nicknames \cup removed_nicknames \cup updated_nicknames

\* behaviour.py:234-246
UpdateSettingsCache ==
    /\ ctl.pc = "us_cache"
    /\ cache' =
        IF hypixel_api_key_changed \/ potential_antisniper_updates
        THEN clear_cache(cache)
        ELSE [key \in DOMAIN cache |->
                IF key \in added_nicknames \cup removed_nicknames \cup updated_nicknames
                THEN Absent ELSE cache[key]]
    /\ wk' = Invalidated(UpdateSettingsUncached)
    /\ ctl' = [ctl EXCEPT !.pc = "us_database",
                          !.dropped = {key \in DOMAIN cache :
                                         cache[key] # Absent /\ cache'[key] = Absent}]
    /\ UNCHANGED <<known_nicks, default_database, hypixel_api_key, antisniper_api_key,
                   use_antisniper_api, new_settings, redraw_event>>
    /\ UNCHANGED <<controller_api_key, api_key_invalid, requests_queue, completed_queue,
                   started, stale, lock_vars, session_vars, interaction_vars>>

\* (mutant of UpdateSettingsDatabase: the removed nicknames stay in the
\* default database)
UpdateSettingsDatabase_KeepsRemoved ==
    /\ ctl.pc = "us_database"
    /\ default_database' =
        [nickname \in DOMAIN default_database |->
            IF nickname \in added_nicknames \cup updated_nicknames
            THEN new_settings.known_nicks[nickname].uuid
            ELSE default_database[nickname]]
    /\ ctl' = [ctl EXCEPT !.pc = "us_redraw"]
    /\ UNCHANGED <<cache, known_nicks, hypixel_api_key, antisniper_api_key,
                   use_antisniper_api, new_settings, redraw_event>>
    /\ SettingsUnchanged

\* behaviour.py:252-259
UpdateSettingsDatabase ==
    /\ ctl.pc = "us_database"
    /\ default_database' =
        [nickname \in DOMAIN default_database |->
            IF nickname \in added_nicknames \cup updated_nicknames
            THEN new_settings.known_nicks[nickname].uuid
            ELSE IF nickname \in removed_nicknames THEN None
            ELSE default_database[nickname]]
    /\ ctl' = [ctl EXCEPT !.pc = "us_redraw"]
    /\ UNCHANGED <<cache, known_nicks, hypixel_api_key, antisniper_api_key,
                   use_antisniper_api, new_settings, redraw_event>>
    /\ SettingsUnchanged

\* behaviour.py:262
UpdateSettingsRedraw ==
    /\ ctl.pc = "us_redraw"
    /\ redraw_event' = TRUE
    /\ ctl' = [ctl EXCEPT !.pc = "us_update"]
    /\ UNCHANGED <<cache, known_nicks, default_database, hypixel_api_key,
                   antisniper_api_key, use_antisniper_api, new_settings>>
    /\ SettingsUnchanged

\* behaviour.py:264-266 - settings.update_from(new_settings), store_settings()
UpdateSettingsStore ==
    /\ ctl.pc = "us_update"
    /\ hypixel_api_key' = new_settings.hypixel_api_key
    /\ antisniper_api_key' = new_settings.antisniper_api_key
    /\ use_antisniper_api' = new_settings.use_antisniper_api
    /\ known_nicks' = new_settings.known_nicks
    /\ new_settings' = NoSettings
    /\ ctl' = IdleCtl
    /\ UNCHANGED <<cache, default_database, redraw_event>>
    /\ SettingsUnchanged

NextSettings ==
    \/ \E settings \in NewSettings : UpdateSettingsCall(settings)
    \/ UpdateSettingsCache
    \/ UpdateSettingsDatabase
    \/ UpdateSettingsRedraw
    \/ UpdateSettingsStore

SpecSettings == InitSettings /\ [][NextSettings]_vars

\* =============================================================== lock model
\* The operations as the sequences of lock, network and local steps they take.
\* Every PlayerCache method is one local step: it takes and releases the cache
\* lock inside and calls nothing.

\* NickDatabase.get_default / get read the databases under nick_database.mutex
nick_database_read == <<Acquire("nick_database"), Release("nick_database")>>

\* (mutant of set_nickname_steps: the database block around the settings block)
set_nickname_steps_DatabaseFirst(username) ==
    (IF username # None THEN <<Network("get_uuid")>> ELSE <<>>)
    \o <<Acquire("nick_database"), Local("default_database"),
         Acquire("settings"), Local("known_nicks"), Release("settings"),
         Release("nick_database"),
         Local("uncache_player"), Local("uncache_player"), Local("redraw_event")>>

\* behaviour.py:16-76
set_nickname_steps(username) ==
    (IF username # None THEN <<Network("get_uuid")>> ELSE <<>>)
    \o <<Acquire("settings"), Local("known_nicks"), Release("settings"),
         Acquire("nick_database"), Local("default_database"),
         Release("nick_database"),
         Local("uncache_player"), Local("uncache_player"), Local("redraw_event")>>

\* behaviour.py:79-89
set_hypixel_api_key_steps ==
    <<Local("set_hypixel_api_key"),
      Acquire("settings"), Local("hypixel_api_key"), Release("settings"),
      Local("clear_cache")>>

\* behaviour.py:186-266; the caller takes the settings lock (line 190)
update_settings_steps ==
    <<Acquire("settings")>>
    \o <<Local("player_cache"),
         Acquire("nick_database"), Local("default_database"),
         Release("nick_database"),
         Local("redraw_event"), Local("update_from")>>
    \o <<Release("settings")>>

\* process_event: the state is changed; a nickname event goes on to
\* set_nickname for the player's own username, an API key event to
\* set_hypixel_api_key.
process_event_steps(event, own_username) ==
    <<Local("process_event")>>
    \o (CASE event = "new_nickname" -> set_nickname_steps(own_username)
          [] event = "new_api_key" -> set_hypixel_api_key_steps
          [] OTHER -> <<>>)
    \o <<Local("return")>>

\* behaviour.py:107-118 - process_loglines, one line
process_loglines_steps(event, own_username) ==
    IF event = None
    THEN <<Local("parse_logline")>>
    ELSE <<Local("parse_logline"), Acquire("state")>>
         \o process_event_steps(event, own_username)
         \o <<Release("state"), Local("redraw_event")>>

\* behaviour.py:95-101 - fast_forward_state, one line
fast_forward_state_steps(event, own_username) ==
    IF event = None
    THEN <<Local("parse_logline")>>
    ELSE <<Local("parse_logline")>> \o process_event_steps(event, own_username)

\* behaviour.py:126-147 - should_redraw with one username on the queue
should_redraw_steps ==
    <<Local("is_set"), Local("get_nowait"),
      Acquire("state"), Local("lobby_players"), Release("state"),
      Local("clear")>>

\* behaviour.py:150-183 with get_stats.py:92-116, 41-89 and 15-38 in line: the
\* run that misses the cache, finds no account, asks every denick source and
\* fills in the winstreak.
get_stats_and_winstreak_steps ==
    <<Local("get_cached_player"), Network("get_uuid")>>
    \o nick_database_read \o <<Network("denick")>> \o nick_database_read
    \o <<Network("get_player_data"), Local("set_cached_player"),
         Local("set_cached_player"), Local("put"),
         Network("get_estimated_winstreaks"), Local("update_cached_player"),
         Local("put")>>

Started == th["logs"].count + th["main"].count + th["worker"].count

Holding(t) == {lock \in Locks : mutex[lock] = t}
Running(t) == th[t].op # None /\ th[t].pc <= Len(th[t].steps)
Step(t) == th[t].steps[th[t].pc]
At(t, kind) == Running(t) /\ Step(t).kind = kind

LockUnchanged ==
    UNCHANGED <<cache, known_nicks, default_database, hypixel_api_key,
                controller_api_key, api_key_invalid, redraw_event, requests_queue,
                completed_queue, wk, ctl, started, stale, settings_vars, session_vars,
                interaction_vars>>

Begin(t, op, event, steps) ==
    /\ th[t].op = None
    /\ Started < MaxOps
    /\ th' = [th EXCEPT ![t] = [@ EXCEPT !.op = op, !.event = event, !.steps = steps,
                                         !.pc = 1, !.count = @ + 1]]
    /\ UNCHANGED <<mutex, state>>
    /\ LockUnchanged

\* The log thread takes the next line: fast_forward_state reads the lines
\* that are there at startup, process_loglines the lines that follow.
FastForwardLine(event, own_username) ==
    /\ ~th["logs"].tailing
    /\ Begin("logs", "fast_forward_state", event,
             fast_forward_state_steps(event, own_username))

ProcessLogline(event, own_username) ==
    /\ th["logs"].op = None
    /\ Begin("logs", "process_loglines", event,
             process_loglines_steps(event, own_username))

\* The main thread: a new settings dict from the settings window, a tick of
\* the redraw loop, a nickname or an API key entered by the user.
UpdateSettingsCalled ==
    /\ th["main"].op = None
    /\ Begin("main", "update_settings", None, update_settings_steps)

ShouldRedrawCalled ==
    /\ th["main"].op = None
    /\ Begin("main", "should_redraw", None, should_redraw_steps)

SetNicknameCalled(username) ==
    /\ th["main"].op = None
    /\ Begin("main", "set_nickname", None, set_nickname_steps(username))

SetHypixelApiKeyCalled ==
    /\ th["main"].op = None
    /\ Begin("main", "set_hypixel_api_key", None, set_hypixel_api_key_steps)

\* A worker takes a username off the requests queue
GetStatsAndWinstreakCalled ==
    /\ th["worker"].op = None
    /\ Begin("worker", "get_stats_and_winstreak", None, get_stats_and_winstreak_steps)

Advance(t) == [th EXCEPT ![t].pc = @ + 1]

\* `with mutex:` - the thread waits until the lock is free
AcquireLock(t) ==
    /\ At(t, "acquire")
    /\ mutex[Step(t).what] = None
    /\ mutex' = [mutex EXCEPT ![Step(t).what] = t]
    /\ th' = Advance(t)
    /\ UNCHANGED state
    /\ LockUnchanged

\* the end of a `with mutex:` block
ReleaseLock(t) ==
    /\ At(t, "release")
    /\ mutex' = [mutex EXCEPT ![Step(t).what] = None]
    /\ th' = Advance(t)
    /\ UNCHANGED state
    /\ LockUnchanged

NetworkCall(t) ==
    /\ At(t, "network")
    /\ th' = Advance(t)
    /\ UNCHANGED <<mutex, state>>
    /\ LockUnchanged

\* A step on local or shared data; process_event applies the thread's event
\* to the state.
LocalStep(t) ==
    /\ At(t, "local")
    /\ LET what == Step(t).what IN
        /\ th' = [Advance(t) EXCEPT
                    ![t].applying = IF what = "process_event" THEN TRUE
                                    ELSE IF what = "return" THEN FALSE ELSE @]
        /\ state' = IF what = "process_event"
                    THEN Append(state, [line |-> th[t].line + 1, event |-> th[t].event,
                                        locked |-> "state" \in Holding(t)])
                    ELSE state
    /\ UNCHANGED mutex
    /\ LockUnchanged

\* The operation returns; the log thread moves to the next line.
Return(t) ==
    /\ th[t].op # None
    /\ th[t].pc > Len(th[t].steps)
    /\ th' = [th EXCEPT ![t] =
                [@ EXCEPT !.op = None, !.event = None, !.steps = <<>>, !.pc = 1,
                          !.line = IF t = "logs" THEN @ + 1 ELSE @,
                          !.tailing = @ \/ th[t].op = "process_loglines"]]
    /\ UNCHANGED <<mutex, state>>
    /\ LockUnchanged

NextLocks ==
    \/ \E event \in Events, own_username \in OwnUsernames :
        \/ FastForwardLine(event, own_username)
        \/ ProcessLogline(event, own_username)
    \/ UpdateSettingsCalled
    \/ ShouldRedrawCalled
    \/ \E username \in OwnUsernames : SetNicknameCalled(username)
    \/ SetHypixelApiKeyCalled
    \/ GetStatsAndWinstreakCalled
    \/ \E t \in Threads :
        \/ AcquireLock(t)
        \/ ReleaseLock(t)
        \/ NetworkCall(t)
        \/ LocalStep(t)
        \/ Return(t)

SpecLocks == Init /\ [][NextLocks]_vars

\* ================================================= get_stats_and_winstreak
\* What get_estimated_winstreaks answers: no estimate, or an estimate.
MISSING_WINSTREAKS == "MISSING_WINSTREAKS"
EstimatedWinstreaks == {MISSING_WINSTREAKS, "estimate"}

\* KnownPlayer.is_missing_winstreaks
is_missing_winstreaks(player) == player.winstreaks = "missing"
\* A record whose stats came without winstreaks.
MissingWinstreaks(player) == [player EXCEPT !.winstreaks = "missing"]
\* KnownPlayer.aliases: the username, and the nick of a denicked player
aliases(player) ==
    IF player.nick # None THEN <<player.username, player.nick>>
    ELSE <<player.username>>
\* KnownPlayer.update_winstreaks fills in the winstreaks that are missing.
update_winstreaks(player) ==
    IF is_missing_winstreaks(player) THEN [player EXCEPT !.winstreaks = "estimated"]
    ELSE player
\* PlayerCache.update_cached_player: one atomic step under the cache lock that
\* updates the record under the key if it is a KnownPlayer; its update argument
\* is always partial(update_winstreaks, ...) (behaviour.py:176-181).
update_cached_player(c, key) ==
    IF c[key].tag = "Known" THEN [c EXCEPT ![key] = update_winstreaks(@)] ELSE c

\* get_stats.py:15-38 - the uuids denick can return for nick
Denicks(db, nick) ==
    IF nick_database_get_default(db, nick) # None
    THEN {nick_database_get_default(db, nick)}
    ELSE (ApiDenickAnswers \ {None})
            \cup ({nick_database_get(db, nick)} \ {None})

\* get_stats.py:41-89 - the records fetch_bedwars_stats can return for
\* username: Nicked, Known by its own uuid, or Known by the uuid of denick.
Resolutions(db, username) ==
    {NickedPlayer(username)}
    \cup {FetchResult(username, uuid, None, Playerdata(uuid)) :
            uuid \in get_uuid(username) \ {None}}
    \cup {FetchResult(username, uuid, username, Playerdata(uuid)) :
            uuid \in Denicks(db, username)}

\* The same records, with the winstreaks the provider reported or left out.
WithWinstreaks(players) ==
    players \cup {MissingWinstreaks(player) : player \in {p \in players : p.tag = "Known"}}

\* (mutant of NeedsWinstreaks: every KnownPlayer gets an estimate)
NeedsWinstreaks_AnyKnown(player) == player.tag = "Known"

\* behaviour.py:162
NeedsWinstreaks(player) == player.tag = "Known" /\ is_missing_winstreaks(player)

WinstreakUnchanged ==
    UNCHANGED <<known_nicks, default_database, hypixel_api_key, controller_api_key,
                api_key_invalid, redraw_event, requests_queue, ctl, started, stale,
                settings_vars, lock_vars, session_vars,
                   interaction_vars>>

\* behaviour.py:155, get_stats.py:92-116 - get_bedwars_stats in one step: a
\* cache hit, or a fetch that returns one of players and the writes of it.
GetBedwarsStatsFrom(w, players) ==
    /\ LET username == wk[w].username
           cached_stats == get_cached_player(cache, username)
       IN  IF CacheHit(cached_stats)
           THEN /\ wk' = [wk EXCEPT ![w].player = cached_stats, ![w].pc = "put"]
                /\ cache' = cache
           ELSE \E player \in players :
                /\ wk' = [wk EXCEPT ![w].player = player, ![w].pc = "put"]
                /\ cache' =
                    set_cached_player(
                        IF NeedsAliasWrite(player)
                        THEN set_cached_player(cache, player.username, WithoutNick(player))
                        ELSE cache,
                        username, player)
    /\ UNCHANGED completed_queue
    /\ WinstreakUnchanged

\* get_bedwars_stats with every answer the providers can give
GetBedwarsStats(w) ==
    /\ wk[w].pc = "gbs"
    /\ GetBedwarsStatsFrom(
            w, WithWinstreaks(Resolutions(default_database, wk[w].username)))

\* get_bedwars_stats while no provider answers: get_uuid, denick and
\* get_player_data find nothing
GetBedwarsStatsOffline(w) ==
    /\ wk[w].pc = "gbs"
    /\ GetBedwarsStatsFrom(w, {NickedPlayer(wk[w].username)})

\* behaviour.py:158 - completed_queue.put(username), then the test of line 162
PutDownloaded(w) ==
    /\ wk[w].pc = "put"
    /\ completed_queue' = Append(completed_queue, wk[w].username)
    /\ wk' = [wk EXCEPT ![w].pc =
                IF NeedsWinstreaks(wk[w].player) THEN "get_estimated_winstreaks"
                ELSE "idle"]
    /\ UNCHANGED cache
    /\ WinstreakUnchanged

\* (mutant of GetEstimatedWinstreaks: the second put is made without estimate)
GetEstimatedWinstreaks_PutsAnyway(w) ==
    /\ wk[w].pc = "get_estimated_winstreaks"
    /\ \E estimated_winstreaks \in EstimatedWinstreaks :
        wk' = [wk EXCEPT ![w] =
                [Bump(@, "winstreaks") EXCEPT
                    !.estimated_winstreaks = estimated_winstreaks,
                    !.aliases = IF estimated_winstreaks = MISSING_WINSTREAKS
                                THEN <<>> ELSE aliases(wk[w].player),
                    !.pc = IF estimated_winstreaks = MISSING_WINSTREAKS
                           THEN "put_estimated" ELSE "update_cached_player"]]
    /\ UNCHANGED <<cache, completed_queue>>
    /\ WinstreakUnchanged

\* behaviour.py:163-169 - controller.get_estimated_winstreaks(player.uuid)
GetEstimatedWinstreaks(w) ==
    /\ wk[w].pc = "get_estimated_winstreaks"
    /\ \E estimated_winstreaks \in EstimatedWinstreaks :
        wk' = [wk EXCEPT ![w] =
                [Bump(@, "winstreaks") EXCEPT
                    !.estimated_winstreaks = estimated_winstreaks,
                    !.aliases = IF estimated_winstreaks = MISSING_WINSTREAKS
                                THEN <<>> ELSE aliases(wk[w].player),
                    !.pc = IF estimated_winstreaks = MISSING_WINSTREAKS
                           THEN "idle" ELSE "update_cached_player"]]
    /\ UNCHANGED <<cache, completed_queue>>
    /\ WinstreakUnchanged

\* behaviour.py:171-179 - one turn of the loop over player.aliases
UpdateCachedPlayer(w) ==
    /\ wk[w].pc = "update_cached_player"
    /\ cache' = update_cached_player(cache, Head(wk[w].aliases))
    /\ wk' = [wk EXCEPT ![w].aliases = Tail(@),
                        ![w].pc = IF Tail(wk[w].aliases) = <<>>
                                  THEN "put_estimated" ELSE "update_cached_player"]
    /\ UNCHANGED completed_queue
    /\ WinstreakUnchanged

\* behaviour.py:182 - completed_queue.put(username)
PutEstimated(w) ==
    /\ wk[w].pc = "put_estimated"
    /\ completed_queue' = Append(completed_queue, wk[w].username)
    /\ wk' = [wk EXCEPT ![w].pc = "idle"]
    /\ UNCHANGED cache
    /\ WinstreakUnchanged

NextWinstreak ==
    \/ \E username \in LobbyNames : Request(username)
    \/ \E w \in Workers :
        \/ Dequeue(w)
        \/ GetBedwarsStats(w)
        \/ PutDownloaded(w)
        \/ GetEstimatedWinstreaks(w)
        \/ UpdateCachedPlayer(w)
        \/ PutEstimated(w)

SpecWinstreak == InitNick /\ [][NextWinstreak]_vars

\* ============================================================ process_event
\* events.py:51-150 - the events a log line parses to
NewNicknameEvent(nick) == [Event("NEW_NICKNAME") EXCEPT !.nick = nick]
LobbySwapEvent == Event("LOBBY_SWAP")
LobbyJoinEvent(username) == [Event("LOBBY_JOIN") EXCEPT !.username = username]
LobbyLeaveEvent(username) == [Event("LOBBY_LEAVE") EXCEPT !.username = username]
LobbyListEvent(usernames) == [Event("LOBBY_LIST") EXCEPT !.usernames = usernames]
PartyAttachEvent(username) == [Event("PARTY_ATTACH") EXCEPT !.username = username]
PartyDetachEvent == Event("PARTY_DETACH")
PartyJoinEvent(usernames) == [Event("PARTY_JOIN") EXCEPT !.usernames = usernames]
PartyLeaveEvent(usernames) == [Event("PARTY_LEAVE") EXCEPT !.usernames = usernames]
PartyListIncomingEvent == Event("PARTY_LIST_INCOMING")
PartyMembershipListEvent(usernames, role) ==
    [Event("PARTY_ROLE_LIST") EXCEPT !.usernames = usernames, !.role = role]
StartBedwarsGameEvent == Event("START_BEDWARS_GAME")
EndBedwarsGameEvent == Event("END_BEDWARS_GAME")
NewAPIKeyEvent(key) == [Event("NEW_API_KEY") EXCEPT !.key = key]

\* The players seen in a party.
PartyNames == {"Alex", "Bob"}

LobbyEvents ==
    {LobbySwapEvent}
    \cup {LobbyJoinEvent(username) : username \in LobbyNames}
    \cup {LobbyLeaveEvent(username) : username \in LobbyNames}
PartyEvents ==
    {PartyAttachEvent("Bob"), PartyDetachEvent, PartyJoinEvent({"Bob"}),
     PartyLeaveEvent({"Bob"}), PartyListIncomingEvent}
    \cup {PartyMembershipListEvent({username}, role) :
            username \in PartyNames, role \in PartyRoles}
\* The events of the lines read from the log.
SessionEvents ==
    LobbyEvents \cup {LobbyListEvent(LobbyNames)} \cup PartyEvents
    \cup {StartBedwarsGameEvent, EndBedwarsGameEvent,
          NewNicknameEvent("NewNick"), NewAPIKeyEvent("key1")}

\* (mutant of Finalized: the usernames listed stay in pending_party)
Finalized_KeepsPending(s) ==
    IF ~s.party_list_incoming THEN s
    ELSE [s EXCEPT !.party = [role \in PartyRoles |->
                                IF s.pending_party[role] # <<>>
                                THEN s.pending_party[role][1] ELSE @[role]],
                   !.party_list_incoming = FALSE]

\* The party list that was coming in is complete: the roles that were listed
\* get the usernames listed for them, and pending_party is empty again.
Finalized(s) ==
    IF ~s.party_list_incoming THEN s
    ELSE [s EXCEPT !.party = [role \in PartyRoles |->
                                IF s.pending_party[role] # <<>>
                                THEN s.pending_party[role][1] ELSE @[role]],
                   !.pending_party = EmptyPendingParty,
                   !.party_list_incoming = FALSE]

\* The usernames of a role list are added to the list that is coming in; a
\* role list that no PartyListIncomingEvent announced is passed over.
Accumulated(s, event) ==
    IF ~s.party_list_incoming THEN s
    ELSE [s EXCEPT !.pending_party[event.role] =
                        <<(IF @ = <<>> THEN {} ELSE @[1]) \cup event.usernames>>]

\* (mutant of lobby_players_after: a player who leaves stays in the lobby)
lobby_players_after_LeaveKeeps(lobby_players, event) ==
    CASE event.type = "LOBBY_SWAP" -> {}
      [] event.type = "LOBBY_JOIN" -> lobby_players \cup {event.username}
      [] event.type = "LOBBY_LIST" -> event.usernames
      [] OTHER -> lobby_players

\* process_event: the lobby after the event
lobby_players_after(lobby_players, event) ==
    CASE event.type = "LOBBY_SWAP" -> {}
      [] event.type = "LOBBY_JOIN" -> lobby_players \cup {event.username}
      [] event.type = "LOBBY_LEAVE" -> lobby_players \ {event.username}
      [] event.type = "LOBBY_LIST" -> event.usernames
      [] OTHER -> lobby_players

\* process_event: the party after the event
party_after(party, event) ==
    CASE event.type = "PARTY_ATTACH" ->
            [role \in PartyRoles |-> IF role = "leader" THEN {event.username} ELSE {}]
      [] event.type = "PARTY_DETACH" -> [role \in PartyRoles |-> {}]
      [] event.type = "PARTY_JOIN" ->
            [party EXCEPT !["members"] = @ \cup event.usernames]
      [] event.type = "PARTY_LEAVE" ->
            [role \in PartyRoles |-> party[role] \ event.usernames]
      [] OTHER -> party

\* process_event: the session state after the event is applied. Any event but
\* a role list ends the party list that was coming in.
process_event_state(s, event) ==
    IF event.type = "PARTY_ROLE_LIST" THEN Accumulated(s, event)
    ELSE [Finalized(s) EXCEPT
            !.lobby_players = lobby_players_after(@, event),
            !.party = party_after(@, event),
            !.party_list_incoming = (event.type = "PARTY_LIST_INCOMING"),
            !.in_game = CASE event.type = "START_BEDWARS_GAME" -> TRUE
                          [] event.type = "END_BEDWARS_GAME" -> FALSE
                          [] OTHER -> @]

\* process_event: what it returns. Changes of the lobby, of the party and of
\* the nickname are seen in the table.
process_event_redraw(event) ==
    event.type \in {"LOBBY_SWAP", "LOBBY_JOIN", "LOBBY_LEAVE", "LOBBY_LIST",
                    "PARTY_ATTACH", "PARTY_DETACH", "PARTY_JOIN", "PARTY_LEAVE",
                    "PARTY_ROLE_LIST", "NEW_NICKNAME"}

\* What an event changes outside the session state.
World ==
    [cache |-> cache, requests_queue |-> requests_queue, known_nicks |-> known_nicks,
     default_database |-> default_database, hypixel_api_key |-> hypixel_api_key,
     controller_api_key |-> controller_api_key, api_key_invalid |-> api_key_invalid,
     redraw_event |-> redraw_event, wk |-> wk, stale |-> stale]

\* behaviour.py:16-76 - set_nickname in one step
SetNicknameApplied(world, username, nick) ==
    UNION {
        {[world EXCEPT
            !.known_nicks = out.known_nicks,
            !.stale = StaleAfter(@, world.known_nicks, out.known_nicks),
            !.default_database =
                SetNicknameDatabase(@, uuid, nick, out.old_nick),
            !.cache = uncache_player(
                        IF out.old_nick # None THEN uncache_player(@, out.old_nick)
                        ELSE @,
                        nick),
            !.wk = Invalidated({nick} \cup ({out.old_nick} \ {None})),
            !.redraw_event = TRUE] :
         out \in SetNicknameSettings(world.known_nicks, uuid, username, nick,
                                     IF uuid = None THEN nick ELSE None)} :
        uuid \in get_uuid(username)}

\* behaviour.py:79-89 - set_hypixel_api_key in one step
SetHypixelApiKeyApplied(world, new_key) ==
    [world EXCEPT !.controller_api_key = new_key, !.api_key_invalid = FALSE,
                  !.hypixel_api_key = new_key, !.cache = clear_cache(@),
                  !.wk = Invalidated(Names)]

\* The stats of a player who joins the lobby are asked for.
RequestApplied(world, username) ==
    IF get_cached_player(world.cache, username) = Absent
    THEN [world EXCEPT
            !.cache = set_cached_player(@, username, PendingPlayer(username)),
            !.requests_queue = Append(@, username)]
    ELSE world

\* process_event: the outcomes outside the session state
process_event_world(world, s, event) ==
    CASE event.type = "LOBBY_JOIN" -> {RequestApplied(world, event.username)}
      [] event.type = "NEW_NICKNAME" ->
            SetNicknameApplied(world, s.own_username, event.nick)
      [] event.type = "NEW_API_KEY" -> {SetHypixelApiKeyApplied(world, event.key)}
      [] OTHER -> {world}

\* ------------------------------------- fast_forward_state, process_loglines
\* What the thread reading the log leaves alone.
LogsUnchanged ==
    UNCHANGED <<completed_queue, ctl, started, sr, settings_vars, lock_vars, interaction_vars>>

\* behaviour.py:102 - fast_forward_state is done with the lines of the past;
\* process_loglines reads the lines written from now on.
StartProcessLoglines ==
    /\ lg.mode = "fast_forward_state" /\ lg.pc = "parse_logline"
    /\ lg' = [lg EXCEPT !.mode = "process_loglines"]
    /\ UNCHANGED <<cache, known_nicks, default_database, hypixel_api_key,
                   controller_api_key, api_key_invalid, redraw_event, requests_queue,
                   wk, stale, session>>
    /\ LogsUnchanged

\* (mutant of ParseMiss: the loop ends at a line that is no event)
ParseMiss_Breaks ==
    /\ lg.pc = "parse_logline" /\ lg.lines < MaxLines
    /\ lg' = [lg EXCEPT !.event = NoEvent, !.lines = @ + 1, !.missed = TRUE,
                        !.pc = "done"]
    /\ UNCHANGED <<cache, known_nicks, default_database, hypixel_api_key,
                   controller_api_key, api_key_invalid, redraw_event, requests_queue,
                   wk, stale, session>>
    /\ LogsUnchanged

\* behaviour.py:96-99 and 108-111 - the line parses to no event: continue
ParseMiss ==
    /\ lg.pc = "parse_logline" /\ lg.lines < MaxLines
    /\ lg' = [lg EXCEPT !.event = NoEvent, !.lines = @ + 1, !.missed = TRUE]
    /\ UNCHANGED <<cache, known_nicks, default_database, hypixel_api_key,
                   controller_api_key, api_key_invalid, redraw_event, requests_queue,
                   wk, stale, session>>
    /\ LogsUnchanged

\* behaviour.py:96-101 and 108-114 - the line parses to an event and
\* process_event applies it, under state.mutex in process_loglines: one step,
\* which should_redraw's look at the lobby does not interleave with.
ApplyLine(event) ==
    /\ lg.pc = "parse_logline" /\ lg.lines < MaxLines
    /\ session' = process_event_state(session, event)
    /\ \E world \in process_event_world(World, session, event) :
        /\ cache' = world.cache
        /\ requests_queue' = world.requests_queue
        /\ known_nicks' = world.known_nicks
        /\ default_database' = world.default_database
        /\ hypixel_api_key' = world.hypixel_api_key
        /\ controller_api_key' = world.controller_api_key
        /\ api_key_invalid' = world.api_key_invalid
        /\ redraw_event' = world.redraw_event
        /\ wk' = world.wk
        /\ stale' = world.stale
    /\ lg' = [lg EXCEPT
                !.event = event, !.lines = @ + 1, !.after_miss = @ \/ lg.missed,
                !.redraw = IF lg.mode = "process_loglines"
                           THEN process_event_redraw(event) ELSE @,
                !.pc = IF lg.mode = "process_loglines" THEN "redraw_event" ELSE @]
    /\ LogsUnchanged

\* (mutant of SetRedrawEvent: the flag follows what process_event returned)
SetRedrawEvent_Assigns ==
    /\ lg.pc = "redraw_event"
    /\ redraw_event' = lg.redraw
    /\ lg' = [lg EXCEPT !.pc = "parse_logline"]
    /\ UNCHANGED <<cache, known_nicks, default_database, hypixel_api_key,
                   controller_api_key, api_key_invalid, requests_queue, wk, stale,
                   session>>
    /\ LogsUnchanged

\* behaviour.py:116-118 - if redraw: controller.redraw_event.set()
SetRedrawEvent ==
    /\ lg.pc = "redraw_event"
    /\ redraw_event' = (redraw_event \/ lg.redraw)
    /\ lg' = [lg EXCEPT !.pc = "parse_logline"]
    /\ UNCHANGED <<cache, known_nicks, default_database, hypixel_api_key,
                   controller_api_key, api_key_invalid, requests_queue, wk, stale,
                   session>>
    /\ LogsUnchanged

NextSession ==
    \/ StartProcessLoglines
    \/ ParseMiss
    \/ \E event \in SessionEvents : ApplyLine(event)
    \/ SetRedrawEvent

SpecSession == Init /\ [][NextSession]_vars

\* ------------------------------------------------------------ should_redraw
\* What should_redraw leaves alone.
ShouldRedrawUnchanged ==
    UNCHANGED <<cache, known_nicks, default_database, hypixel_api_key,
                controller_api_key, api_key_invalid, requests_queue, wk, ctl, started,
                stale, session, lg, settings_vars, lock_vars,
                interaction_vars>>

\* behaviour.py:126 - redraw = controller.redraw_event.is_set()
ShouldRedrawIsSet ==
    /\ sr.pc = "idle" /\ sr.calls < MaxTicks
    /\ sr' = [IdleShouldRedraw EXCEPT !.pc = "get_nowait", !.redraw = redraw_event,
                                      !.entry = redraw_event, !.calls = sr.calls + 1]
    /\ UNCHANGED <<redraw_event, completed_queue>>
    /\ ShouldRedrawUnchanged

\* behaviour.py:129-136 - completed_stats_queue.get_nowait(): the loop ends
\* when the queue is empty; the lobby is looked at only if not redraw
ShouldRedrawGetNowait ==
    /\ sr.pc = "get_nowait"
    /\ IF completed_queue = <<>>
       THEN /\ sr' = [sr EXCEPT !.pc = "clear"]
            /\ UNCHANGED completed_queue
       ELSE /\ sr' = [sr EXCEPT !.username = Head(completed_queue),
                                !.pc = IF sr.redraw THEN "get_nowait"
                                       ELSE "lobby_players"]
            /\ completed_queue' = Tail(completed_queue)
    /\ UNCHANGED redraw_event
    /\ ShouldRedrawUnchanged

\* behaviour.py:137-141 - under state.mutex: username in state.lobby_players
ShouldRedrawLobbyPlayers ==
    /\ sr.pc = "lobby_players"
    /\ sr' = [sr EXCEPT !.redraw = sr.username \in session.lobby_players,
                        !.hit = sr.username \in session.lobby_players,
                        !.pc = "get_nowait"]
    /\ UNCHANGED <<redraw_event, completed_queue>>
    /\ ShouldRedrawUnchanged

\* (mutant of ShouldRedrawReturn: the flag is cleared at every return)
ShouldRedrawReturn_AlwaysClears ==
    /\ sr.pc = "clear"
    /\ redraw_event' = FALSE
    /\ sr' = [sr EXCEPT !.pc = "idle", !.cleared = sr.redraw, !.returned = sr.redraw]
    /\ UNCHANGED completed_queue
    /\ ShouldRedrawUnchanged

\* behaviour.py:143-147 - if redraw: redraw_event.clear(); return redraw
ShouldRedrawReturn ==
    /\ sr.pc = "clear"
    /\ redraw_event' = IF sr.redraw THEN FALSE ELSE redraw_event
    /\ sr' = [sr EXCEPT !.pc = "idle", !.cleared = sr.redraw, !.returned = sr.redraw]
    /\ UNCHANGED completed_queue
    /\ ShouldRedrawUnchanged

\* A call of should_redraw that has begun goes on.
ShouldRedrawStep ==
    \/ ShouldRedrawGetNowait
    \/ ShouldRedrawLobbyPlayers
    \/ ShouldRedrawReturn

\* The thread reading the log, the workers fetching the stats of the players
\* who joined, and the main thread calling should_redraw. should_redraw reads
\* no record: the fetches are those that find nothing.
NextRedraw ==
    \/ \E event \in LobbyEvents : ApplyLine(event)
    \/ SetRedrawEvent
    \/ \E w \in Workers :
        \/ Dequeue(w)
        \/ GetBedwarsStatsOffline(w)
        \/ PutCompleted(w)
    \/ ShouldRedrawIsSet
    \/ ShouldRedrawStep

\* The main thread goes on with a call of should_redraw it has begun; nothing
\* is assumed of the workers and of the thread reading the log.
SpecRedraw == InitTailing /\ [][NextRedraw]_vars /\ WF_vars(ShouldRedrawStep)

\* ================================================================== claims
Final(record) == record.tag \in {"Known", "Nicked"}
InFlight(w, key) == wk[w].username = key /\ wk[w].pc \in InFlightPcs
Completed == {completed_queue[i] : i \in 1..Len(completed_queue)}

\* C1: two requests for the same username that are being fetched at the same
\* time make at most one call to the stats provider between them.
C1_AtMostOneStatsCall ==
    \A key \in Names : \A w1, w2 \in Workers :
        (w1 # w2 /\ InFlight(w1, key) /\ InFlight(w2, key))
            => wk[w1].calls.stats + wk[w2].calls.stats <= 1

\* C2: at most one fetch per cache key is in flight in every reachable state,
\* also when the key is invalidated during its fetch and requested again.
C2_OneFetchPerKey ==
    \A key \in Names : Cardinality({w \in Workers : InFlight(w, key)}) <= 1

\* C3: whenever an identity or stats call for a key is about to start, the
\* cache holds a record under that key (the Pending record installed before).
C3_RecordWhenCallStarts ==
    \A w \in Workers :
        wk[w].pc \in {"fetch_uuid", "fetch_data", "fetch_data2"}
            => get_cached_player(cache, wk[w].username) # Absent

\* C4: a get_bedwars_stats call that finds a Known or Nicked record under its
\* key returns that record, makes no provider call and leaves the cache as it
\* is; one that finds a Pending record or none goes on to fetch.
C4_CachedIsIdempotent ==
    [][\A w \in Workers :
        (wk[w].pc = "gbs" /\ wk'[w].pc # "gbs") =>
            IF cache[wk[w].username].tag \in {"Known", "Nicked"}
            THEN /\ wk'[w].pc = "put"
                 /\ wk'[w].player = cache[wk[w].username]
                 /\ wk'[w].calls = NoCalls
                 /\ cache' = cache
            ELSE wk'[w].pc = "fetch_uuid"]_vars

\* A worker has returned a cached record without any provider call.
C4_Witness ==
    \E w \in Workers :
        wk[w].pc = "put" /\ wk[w].calls = NoCalls /\ Final(wk[w].player)

\* C5 as claimed: resolving a username bound in the persisted table gives a
\* Known record with another username, found under that username as well
\* once get_bedwars_stats is done.
C5_RoundTrip ==
    \A w \in Workers :
        (wk[w].pc = "put" /\ wk[w].calls.identity >= 1
            /\ known_nicks[wk[w].username].uuid # None)
        => /\ wk[w].player.tag = "Known"
           /\ wk[w].player.username # wk[w].username
           /\ cache[wk[w].player.username] \in {wk[w].player, WithoutNick(wk[w].player)}

\* C5 as amended: a username de-anonymization finds in the default database
\* is fetched with the bound uuid; if those stats are fetched the result is
\* Known with the provider's display name and the input as nick, a copy with
\* the nick cleared is stored under the display name and then the record
\* itself under the input; if they are not the result is Nicked.
C5_AliasWriteThrough ==
    [][\A w \in Workers :
        LET l == wk[w]
            l2 == wk'[w]
        IN  /\ (l.pc = "dn_default" /\ l2.pc # "dn_default"
                    /\ default_database[l.username] # None)
                => /\ l2.uuid = default_database[l.username]
                   /\ l2.nick = l.username
                   /\ l2.pc \in {"fetch_data", "fetch_data2"}
            /\ (l.pc \in {"fetch_data", "fetch_data2"} /\ l.nick # None
                    /\ l2.pc \notin {"fetch_data", "fetch_data2"})
                => \/ l2.player = NickedPlayer(l.username) /\ l2.pc = "cache_set"
                   \/ /\ l2.player = KnownPlayer(l.uuid, DisplayName(l.uuid), l.username)
                      /\ l2.pc = "cache_alias"
            /\ (l.pc = "cache_alias" /\ l2.pc # "cache_alias")
                => /\ cache'[l.player.username]
                        = KnownPlayer(l.player.uuid, l.player.username, None)
                   /\ l2.pc = "cache_set"
            /\ (l.pc = "cache_set" /\ l2.pc # "cache_set")
                => cache'[l.username] = l.player]_vars

\* The nickname bound to u1 was fetched, nobody asked for "Alex", and the
\* record is cached under both names.
C5_Witness ==
    /\ known_nicks["OldNick"].uuid = "u1"
    /\ cache["OldNick"] = KnownPlayer("u1", "Alex", "OldNick")
    /\ cache["Alex"] = KnownPlayer("u1", "Alex", None)
    /\ "Alex" \notin Completed
    /\ \A w \in Workers : wk[w].username # "Alex"

\* C6: when set_hypixel_api_key(new_key) completes, the key of the outbound
\* stats calls and the key in the settings are new_key and the cache holds no
\* record.
C6_CredentialUpdate ==
    [][(ctl.pc = "key_clear" /\ ctl'.pc = "idle")
        => /\ controller_api_key' = ctl.new_key
           /\ hypixel_api_key' = ctl.new_key
           /\ \A key \in Names : get_cached_player(cache', key) = Absent]_vars

\* The key was changed after stats had been downloaded.
C6_Witness ==
    /\ ctl.pc = "idle"
    /\ controller_api_key = "key1"
    /\ hypixel_api_key = "key1"
    /\ completed_queue # <<>>
    /\ \A key \in Names : cache[key] = Absent

\* C7: set_nickname for a uuid bound under another nick moves the entry, with
\* its value, to the new nick in known_nicks, moves the uuid in the default
\* database, uncaches the old and the new nick and sets the redraw event.
C7_Rename ==
    [][LET renaming == ctl.uuid # None /\ ctl.old_nick \notin {None, ctl.nick}
       IN
        /\ (ctl.pc = "sn_settings" /\ ctl'.pc = "sn_database" /\ ctl.uuid # None
                /\ \E n \in Names \ {ctl.nick} : known_nicks[n].uuid = ctl.uuid)
            => \E old \in Names \ {ctl.nick} :
                /\ known_nicks[old].uuid = ctl.uuid
                /\ ctl'.old_nick = old
                /\ known_nicks'[old] = NoNickValue
                /\ known_nicks'[ctl.nick] = known_nicks[old]
                /\ \A m \in Names \ {old, ctl.nick} : known_nicks'[m] = known_nicks[m]
        /\ (renaming /\ ctl.pc = "sn_database" /\ ctl'.pc # "sn_database")
            => /\ default_database'[ctl.old_nick] = None
               /\ default_database'[ctl.nick] = ctl.uuid
               /\ ctl'.pc = "sn_uncache_old"
        /\ (renaming /\ ctl.pc = "sn_uncache_old" /\ ctl'.pc # "sn_uncache_old")
            => cache'[ctl.old_nick] = Absent /\ ctl'.pc = "sn_uncache_nick"
        /\ (renaming /\ ctl.pc = "sn_uncache_nick" /\ ctl'.pc # "sn_uncache_nick")
            => cache'[ctl.nick] = Absent /\ ctl'.pc = "sn_redraw"
        /\ (renaming /\ ctl.pc = "sn_redraw" /\ ctl'.pc # "sn_redraw")
            => /\ redraw_event'
               /\ known_nicks'[ctl.old_nick] = NoNickValue
               /\ known_nicks'[ctl.nick].uuid = ctl.uuid
               /\ default_database'[ctl.old_nick] = None
               /\ default_database'[ctl.nick] = ctl.uuid]_vars

\* u1, bound under "OldNick" at the start with stats downloaded for that nick,
\* has been moved to "NewNick".
C7_Witness ==
    /\ ctl.pc = "idle"
    /\ known_nicks["OldNick"] = NoNickValue
    /\ known_nicks["NewNick"] = NickValue("u1", "teammate")
    /\ default_database["OldNick"] = None
    /\ default_database["NewNick"] = "u1"
    /\ "OldNick" \in Completed
    /\ cache["OldNick"] = Absent
    /\ redraw_event

OneNickPerUuid(uuid_of) ==
    \A n1, n2 \in DOMAIN uuid_of :
        (n1 # n2 /\ uuid_of[n1] # None) => uuid_of[n1] # uuid_of[n2]

\* C8: whatever set_nickname calls have been made, no uuid is bound under two
\* nicks, neither in known_nicks nor in the default database.
C8_OneBindingPerUuid ==
    /\ OneNickPerUuid([n \in Names |-> known_nicks[n].uuid])
    /\ OneNickPerUuid(default_database)

\* Both accounts are bound, u1 having been moved from "OldNick" to "NewNick".
C8_Witness ==
    /\ ctl.pc = "idle"
    /\ known_nicks["NewNick"].uuid = "u1"
    /\ known_nicks["OldNick"].uuid = "u2"
    /\ default_database["NewNick"] = "u1"
    /\ default_database["OldNick"] = "u2"

\* C9: once the binding of a nick has changed, the cache holds no Known record
\* of the identity bound before under that nick.
C9_NoStaleNickRecord ==
    \A p \in stale : ~(cache[p[1]].tag = "Known" /\ cache[p[1]].uuid = p[2])

WaitsFor(t) == IF At(t, "acquire") THEN mutex[Step(t).what] ELSE None
\* A set of threads each waiting for a lock held inside the set.
Deadlocked(S) == S # {} /\ \A t \in S : WaitsFor(t) \in S

\* C11: no thread asks for the settings lock while it holds the nickname
\* database lock, and with set_nickname, update_settings, set_hypixel_api_key
\* and the workers' database reads running side by side no set of threads
\* waits for each other's locks.
C11_SettingsBeforeNickDatabase ==
    /\ \A t \in Threads :
        (At(t, "acquire") /\ Step(t).what = "settings")
            => "nick_database" \notin Holding(t)
    /\ \A S \in SUBSET Threads : ~Deadlocked(S)

\* update_settings, holding the settings lock, waits for the database lock
\* that set_nickname holds on the log thread, while the worker waits for it
\* as well.
C11_Witness ==
    /\ th["main"].op = "update_settings"
    /\ mutex["settings"] = "main"
    /\ WaitsFor("main") = "logs"
    /\ th["logs"].event = "new_nickname"
    /\ WaitsFor("worker") = "logs"

\* C12: a thread making a network call holds no lock, also when the log
\* thread applies a nickname event.
C12_NoLockAcrossNetworkCall ==
    \A t \in Threads : At(t, "network") => Holding(t) = {}

\* C13: only the workers make network calls; neither the thread applying
\* events nor the main thread does, whatever operation it runs.
C13_NetworkOnlyInWorkers ==
    \A t \in Threads : At(t, "network") => t = "worker"

\* C14: every event is applied in the order of the lines and with the state
\* mutex held, by process_loglines and by fast_forward_state alike.
C14_AppliedInOrderUnderMutex ==
    /\ \A i \in 1..Len(state) : state[i].locked
    /\ \A i, j \in 1..Len(state) : i < j => state[i].line < state[j].line

\* C15: update_settings without a change of credentials drops from the cache
\* exactly the nicknames whose bound uuid differs between the old and the new
\* settings (added, removed, rebound) and leaves every other entry as it is.
C15_ExactlyAffectedKeys ==
    [][(/\ ctl.pc = "us_cache" /\ ctl'.pc # "us_cache"
        /\ new_settings.hypixel_api_key = hypixel_api_key
        /\ new_settings.antisniper_api_key = antisniper_api_key
        /\ new_settings.use_antisniper_api = use_antisniper_api)
       => \A key \in Names :
            cache'[key] = IF new_settings.known_nicks[key].uuid # known_nicks[key].uuid
                          THEN Absent ELSE cache[key]]_vars

\* C16 as claimed: update_settings clears the cache whenever the hypixel or
\* the antisniper key differs, and whenever use_antisniper_api is toggled
\* while an antisniper key is present.
C16_AnyCredentialChangeClears ==
    [][(/\ ctl.pc = "us_cache" /\ ctl'.pc # "us_cache"
        /\ \/ new_settings.hypixel_api_key # hypixel_api_key
           \/ new_settings.antisniper_api_key # antisniper_api_key
           \/ /\ new_settings.use_antisniper_api # use_antisniper_api
              /\ new_settings.antisniper_api_key # None)
       => \A key \in Names : cache'[key] = Absent]_vars

\* C16 as amended: update_settings clears the cache when the hypixel key
\* differs, when the antisniper key differs and the new settings use the
\* antisniper API, and when use_antisniper_api is toggled and the new
\* settings hold an antisniper key.
C16_CredentialChangeClears ==
    [][(/\ ctl.pc = "us_cache" /\ ctl'.pc # "us_cache"
        /\ \/ new_settings.hypixel_api_key # hypixel_api_key
           \/ /\ new_settings.antisniper_api_key # antisniper_api_key
              /\ new_settings.use_antisniper_api
           \/ /\ new_settings.use_antisniper_api # use_antisniper_api
              /\ new_settings.antisniper_api_key # None)
       => \A key \in Names : cache'[key] = Absent]_vars

\* The antisniper API was switched with its key in place and the other
\* settings as they were: the records that were cached are gone.
C16_Witness ==
    /\ ctl.op = "update_settings" /\ ctl.pc = "us_database"
    /\ new_settings.use_antisniper_api # use_antisniper_api
    /\ new_settings.antisniper_api_key = antisniper_api_key
    /\ antisniper_api_key # None
    /\ new_settings.hypixel_api_key = hypixel_api_key
    /\ new_settings.known_nicks = known_nicks
    /\ ctl.dropped # {}
    /\ \A key \in Names : cache[key] = Absent

\* fetch_bedwars_stats has returned to get_bedwars_stats in this run.
Resolved(w) == wk[w].pc \in {"cache_alias", "cache_set", "put"} /\ wk[w].calls.identity = 1

\* C17: when the identity lookup finds no uuid and the last source of denick
\* misses as well, fetch_bedwars_stats returns a Nicked record of the input
\* username without having made a stats call.
C17_NickedWithoutStatsCall ==
    [][\A w \in Workers :
        (/\ wk[w].pc = "dn_db" /\ wk'[w].pc # "dn_db"
         /\ wk[w].site = "first"
         /\ nick_database_get(default_database, wk[w].username) = None)
        => /\ wk'[w].player = NickedPlayer(wk[w].username)
           /\ wk'[w].pc = "cache_set"
           /\ wk'[w].calls.stats = 0
           /\ wk'[w].uuid = None]_vars

\* A nickname nobody has bound, which the denick API does not know either,
\* was resolved.
C17_Witness ==
    \E w \in Workers :
        /\ wk[w].pc = "put" /\ wk[w].username = "OldNick"
        /\ wk[w].site = "first" /\ wk[w].uuid = None
        /\ wk[w].calls.denick = 1
        /\ cache["OldNick"] = NickedPlayer("OldNick")

\* C18 as claimed: when the denick after a failed fetch of a username with an
\* account yields a uuid, the result is Known under the nickname.
C18_RetryGivesKnown ==
    \A w \in Workers :
        (Resolved(w) /\ wk[w].site = "second" /\ wk[w].nick # None)
            => wk[w].player.tag = "Known" /\ wk[w].player.nick = wk[w].username

\* C18 as amended: a failed fetch of a lookup that was not denicked is
\* followed by denick; if that yields a uuid the stats are fetched again with
\* it and the result is Known under the nickname if they are found and Nicked
\* if not; if it yields none the result is Nicked. A failed fetch of a
\* denicked lookup returns Nicked with no further call.
C18_RetryOnce ==
    [][\A w \in Workers :
        LET l == wk[w]
            l2 == wk'[w]
        IN  /\ (l.pc = "fetch_data" /\ l2.pc # "fetch_data")
                => \/ l2.player = FetchResult(l.username, l.uuid, l.nick, Playerdata(l.uuid))
                      /\ l2.pc \in {"cache_alias", "cache_set"}
                   \/ ~l.denicked /\ l2.pc = "dn_default" /\ l2.site = "second"
                   \/ /\ l.denicked
                      /\ l2.player = NickedPlayer(l.username) /\ l2.pc = "cache_set"
                      /\ l2.calls.denick = l.calls.denick
            /\ (l.site = "second" /\ l.pc \in {"dn_default", "dn_api", "dn_db"}
                    /\ l2.pc \notin {"dn_default", "dn_api", "dn_db"})
                => \/ /\ l2.pc = "fetch_data2" /\ l2.uuid # None
                      /\ l2.nick = l.username
                   \/ l2.player = NickedPlayer(l.username) /\ l2.pc = "cache_set"
            /\ (l.pc = "fetch_data2" /\ l2.pc # "fetch_data2")
                => /\ l2.calls.stats = 2
                   /\ \/ l2.player = KnownPlayer(l.uuid, DisplayName(l.uuid), l.username)
                      \/ l2.player = NickedPlayer(l.username)
                   /\ l2.pc \in {"cache_alias", "cache_set"}]_vars

\* "Alex" has an account without stats and is a nickname the denick API
\* knows: the second fetch found the stats.
C18_Witness ==
    \E w \in Workers :
        /\ wk[w].pc = "put" /\ wk[w].site = "second"
        /\ wk[w].calls.stats = 2
        /\ wk[w].player = KnownPlayer("u1", "Alex", "Alex")

\* C19: a run of the resolver makes at most one identity lookup, at most one
\* call of the denick API and at most two stats fetches, a second fetch only
\* after the one denick that follows a failed fetch, and every run that was
\* started returns.
C19_OneRetryAndTerminates ==
    /\ [](\A w \in Workers :
            /\ wk[w].calls.identity <= 1
            /\ wk[w].calls.denick <= 1
            /\ wk[w].calls.stats <= 2
            /\ wk[w].calls.stats = 2 => wk[w].site = "second")
    /\ \A w \in Workers : (wk[w].pc = "gbs") ~> (wk[w].pc = "put")

\* Both fetches of a run failed and the run returned Nicked.
C19_Witness ==
    \E w \in Workers :
        /\ wk[w].pc = "put"
        /\ wk[w].calls = [identity |-> 1, denick |-> 1, stats |-> 2, winstreaks |-> 0]
        /\ wk[w].player = NickedPlayer(wk[w].username)

\* The worker has left denick with this step.
LeftDenick(l, l2) ==
    l.pc \in {"dn_default", "dn_api", "dn_db"}
    /\ l2.pc \notin {"dn_default", "dn_api", "dn_db"}
\* denick returned uuid with this step.
DenickYields(l, l2, uuid) ==
    /\ LeftDenick(l, l2)
    /\ l2.uuid = uuid /\ l2.nick = l.username
    /\ l2.pc \in {"fetch_data", "fetch_data2"}

\* C20 as claimed: the first source denick consults is the persisted binding
\* of the nickname (settings.known_nicks); its hit is what denick returns, and
\* the denick API is asked when it misses.
C20_PersistedBindingFirst ==
    [][\A w \in Workers :
        (wk[w].pc = "dn_default" /\ wk'[w].pc # "dn_default")
            => IF known_nicks[wk[w].username].uuid # None
               THEN DenickYields(wk[w], wk'[w], known_nicks[wk[w].username].uuid)
               ELSE wk'[w].pc = "dn_api"]_vars

\* C20 as amended: denick consults the default database of the nick database
\* first, then the denick API, then the nick database as a whole; the first
\* hit is returned and no later source is consulted, and the result is none
\* only if all three miss.
C20_DefaultThenApiThenDatabase ==
    [][\A w \in Workers :
        LET l == wk[w]
            l2 == wk'[w]
        IN  /\ (l.pc = "dn_default" /\ l2.pc # "dn_default")
                => IF default_database[l.username] # None
                   THEN /\ DenickYields(l, l2, default_database[l.username])
                        /\ l2.calls.denick = l.calls.denick
                   ELSE l2.pc = "dn_api" /\ l2.calls = l.calls
            /\ (l.pc = "dn_api" /\ l2.pc # "dn_api")
                => /\ l2.calls.denick = l.calls.denick + 1
                   /\ \/ l2.pc = "dn_db"
                      \/ \E uuid \in UUIDs : DenickYields(l, l2, uuid)
            /\ (l.pc = "dn_db" /\ l2.pc # "dn_db")
                => /\ l2.calls = l.calls
                   /\ IF nick_database_get(default_database, l.username) # None
                      THEN DenickYields(l, l2, nick_database_get(default_database, l.username))
                      ELSE /\ l2.player = NickedPlayer(l.username)
                           /\ l2.pc = "cache_set"]_vars

\* A nickname that is in no table was denicked by the API and its stats
\* cached.
C20_Witness ==
    \E w \in Workers :
        /\ wk[w].pc = "put" /\ wk[w].username = "Alex"
        /\ default_database["Alex"] = None
        /\ wk[w].calls.denick = 1
        /\ wk[w].site = "first"
        /\ wk[w].player = KnownPlayer("u1", "Alex", "Alex")

\* ------------------------------------------------------------ claims C21-C30
\* C21: the record fetch_bedwars_stats returns: a Known record carries the
\* provider's display name as username and the input as nick exactly when the
\* input was denicked, and the input as username with no nick otherwise; a
\* Nicked record carries the input.
C21_ResultShape ==
    \A w \in Workers :
        Resolved(w) =>
            LET l == wk[w] IN
            /\ l.player.tag \in {"Known", "Nicked"}
            /\ l.player.tag = "Nicked" => l.player = NickedPlayer(l.username)
            /\ l.player.tag = "Known" =>
                /\ l.uuid # None
                /\ IF l.nick # None
                   THEN /\ l.calls.denick > 0 \/ default_database[l.username] # None
                        /\ l.player = KnownPlayer(l.uuid, DisplayName(l.uuid), l.username)
                   ELSE l.player = KnownPlayer(l.uuid, l.username, None)

\* A nickname was denicked and a plain username was resolved directly.
C21_Witness ==
    /\ \E w \in Workers :
        /\ Resolved(w) /\ wk[w].username = "OldNick"
        /\ wk[w].player = KnownPlayer("u1", "Alex", "OldNick")
    /\ \E w \in Workers :
        /\ wk[w].username = "Alex"
        /\ wk[w].calls = [identity |-> 1, denick |-> 0, stats |-> 1, winstreaks |-> 0]
        /\ wk[w].player = KnownPlayer("u1", "Alex", None)

\* C22: whichever of the identity lookup, the denick API and the stats fetch
\* fail, get_bedwars_stats returns a Known or a Nicked record, stores it under
\* the username asked for, and the worker then puts that username on the
\* completed queue; every run that was started gets there.
C22_FailureIsAValue ==
    /\ [](\A w \in Workers :
            wk[w].pc \in {"cache_alias", "cache_set", "put"} => Final(wk[w].player))
    /\ [][\A w \in Workers :
            /\ (wk[w].pc = "cache_set" /\ wk'[w].pc # "cache_set")
                => /\ wk'[w].pc = "put" /\ wk'[w].player = wk[w].player
                   /\ get_cached_player(cache', wk[w].username) = wk[w].player
            /\ (wk[w].pc = "put" /\ wk'[w].pc # "put")
                => /\ completed_queue' = Append(completed_queue, wk[w].username)
                   /\ Final(get_cached_player(cache, wk[w].username))]_vars
    /\ \A w \in Workers :
        (wk[w].pc = "gbs") ~> (wk[w].pc = "idle" /\ wk[w].username \in Completed)

\* The identity lookup, the denick API and the tables all failed: the Nicked
\* record is cached and the username is on the completed queue.
C22_Witness ==
    \E w \in Workers :
        /\ wk[w].pc = "idle" /\ wk[w].username = "Alex"
        /\ wk[w].calls = [identity |-> 1, denick |-> 1, stats |-> 0, winstreaks |-> 0]
        /\ cache["Alex"] = NickedPlayer("Alex")
        /\ "Alex" \in Completed

\* C25: a worker puts a username on the completed queue only after a Known or
\* Nicked record was written under it: it reaches the put either from its own
\* write of the result or from a cache hit on a final record, and nothing but
\* that put extends the queue.
C25_WrittenBeforeCompletion ==
    [][/\ \A w \in Workers :
            (wk'[w].pc = "put" /\ wk[w].pc # "put")
                => /\ Final(wk'[w].player)
                   /\ \/ /\ wk[w].pc = "cache_set"
                         /\ get_cached_player(cache', wk[w].username) = wk'[w].player
                      \/ /\ wk[w].pc = "gbs"
                         /\ get_cached_player(cache, wk[w].username) = wk'[w].player
       /\ completed_queue' # completed_queue
            => \E w \in Workers :
                /\ wk[w].pc = "put" /\ wk'[w].pc = "idle"
                /\ Final(wk[w].player)
                /\ completed_queue' = Append(completed_queue, wk[w].username)]_vars

\* A username is on the completed queue after the worker wrote its record,
\* and the record has been removed from the cache since.
C25_Witness ==
    \E w \in Workers :
        /\ wk[w].pc = "idle" /\ wk[w].username \in Completed
        /\ wk[w].calls.stats = 1 /\ wk[w].player.tag = "Known"
        /\ cache[wk[w].username] = Absent

\* The run of get_stats_and_winstreak of worker w is past the test of
\* behaviour.py:162.
PastWinstreakTest(w) ==
    \/ wk[w].pc \in {"get_estimated_winstreaks", "update_cached_player", "put_estimated"}
    \/ wk[w].pc = "idle" /\ wk[w].username # None
Puts(username) ==
    Cardinality({i \in 1..Len(completed_queue) : completed_queue[i] = username})

\* The records the one-step get_bedwars_stats draws from are the records the
\* resolver returns step by step.
ResolutionsAreFetchResults ==
    \A w \in Workers :
        Resolved(w) => wk[w].player \in Resolutions(default_database, wk[w].username)

\* C23: a run of get_stats_and_winstreak calls get_estimated_winstreaks once
\* if the record it resolved is a KnownPlayer that is missing winstreaks, and
\* not at all otherwise.
C23_OneEnrichmentCall ==
    \A w \in Workers :
        LET l == wk[w] IN
        /\ l.calls.winstreaks <= 1
        /\ l.pc \in {"gbs", "put", "get_estimated_winstreaks"} => l.calls.winstreaks = 0
        /\ (PastWinstreakTest(w) /\ l.pc # "get_estimated_winstreaks")
            => l.calls.winstreaks =
                IF l.player.tag = "Known" /\ l.player.winstreaks = "missing"
                THEN 1 ELSE 0

\* "OldNick" has no account of its own and is bound to u1 in the persisted
\* table; the stats come without winstreaks, the one call for an estimate
\* gives none, and the record under "OldNick" is still missing winstreaks.
C23_Witness ==
    /\ \E w \in Workers :
        /\ wk[w].pc = "idle" /\ wk[w].username = "OldNick"
        /\ known_nicks["OldNick"].uuid = "u1"
        /\ wk[w].calls.winstreaks = 1
        /\ wk[w].estimated_winstreaks = MISSING_WINSTREAKS
        /\ cache["OldNick"] = MissingWinstreaks(KnownPlayer("u1", "Alex", "OldNick"))
    /\ \E w \in Workers :
        /\ wk[w].pc = "idle" /\ wk[w].player = KnownPlayer("u1", "Alex", None)
        /\ wk[w].calls.winstreaks = 0

\* C24: when get_estimated_winstreaks gives no estimate the run ends there:
\* the cache is as it was and the username has been put on the completed
\* queue once. When it gives an estimate the records under the player's
\* aliases are updated, one alias at a time, and the username is put on the
\* queue a second time.
C24_EstimateOrNothing ==
    /\ [][\A w \in Workers :
            LET l == wk[w]
                l2 == wk'[w]
            IN  /\ (l.pc = "get_estimated_winstreaks" /\ l2.pc # l.pc)
                    => /\ cache' = cache /\ completed_queue' = completed_queue
                       /\ IF l2.estimated_winstreaks = MISSING_WINSTREAKS
                          THEN l2.pc = "idle"
                          ELSE /\ l2.pc = "update_cached_player"
                               /\ l2.aliases = aliases(l.player)
                /\ (l.pc = "update_cached_player" /\ l2 # l)
                    => /\ l.aliases # <<>> /\ l2.aliases = Tail(l.aliases)
                       /\ l2.pc = IF l2.aliases = <<>> THEN "put_estimated" ELSE l.pc
                       /\ \A key \in Names :
                            cache'[key] =
                                IF key = Head(l.aliases) /\ cache[key].tag = "Known"
                                THEN update_winstreaks(cache[key])
                                ELSE cache[key]
                /\ (l.pc = "put_estimated" /\ l2.pc # l.pc)
                    => /\ l.estimated_winstreaks = "estimate"
                       /\ completed_queue' = Append(completed_queue, l.username)
                       /\ cache' = cache]_vars
    /\ [](\A w \in Workers :
            (wk[w].pc = "idle" /\ wk[w].username # None)
                => Puts(wk[w].username) =
                    IF wk[w].estimated_winstreaks = "estimate" THEN 2 ELSE 1)

\* One run got no estimate and its record is still missing winstreaks; another
\* got one, and the records under the nick and the username are updated.
C24_Witness ==
    /\ \E w \in Workers :
        /\ wk[w].pc = "idle" /\ wk[w].username = "Alex"
        /\ wk[w].estimated_winstreaks = MISSING_WINSTREAKS
        /\ cache["Alex"] = MissingWinstreaks(KnownPlayer("u1", "Alex", "Alex"))
        /\ Puts("Alex") = 1
    /\ Puts("OldNick") = 2

\* The thread reading the log reads a line that parses to event with this
\* step.
Reads(event) == lg'.lines = lg.lines + 1 /\ lg'.event = event

\* C27: a lobby join adds the username to the lobby, a lobby leave removes
\* it and a lobby swap empties the lobby, whatever was applied before; the
\* events that are no lobby events leave the lobby as it is.
C27_LobbyReplay ==
    [][/\ \A username \in LobbyNames :
            /\ Reads(LobbyJoinEvent(username))
                => session'.lobby_players = session.lobby_players \cup {username}
            /\ Reads(LobbyLeaveEvent(username))
                => session'.lobby_players = session.lobby_players \ {username}
       /\ Reads(LobbySwapEvent) => session'.lobby_players = {}
       /\ \A event \in SessionEvents \ (LobbyEvents \cup {LobbyListEvent(LobbyNames)}) :
            Reads(event) => session'.lobby_players = session.lobby_players]_vars

\* Two players joined, the first of them left: the second is in the lobby.
C27_Witness ==
    /\ lg.event = LobbyLeaveEvent("OldNick") /\ lg.lines >= 3
    /\ session.lobby_players = {"Alex"}

\* C28: the role lists read after a PartyListIncomingEvent add up in
\* pending_party; the next event that is no role list puts, for every role
\* that was listed, exactly the usernames listed in place of the role's set,
\* and pending_party is empty after it.
C28_RoleListsReplaceRoles ==
    [][/\ Reads(PartyListIncomingEvent)
            => /\ session'.party_list_incoming
               /\ session'.pending_party = EmptyPendingParty
       /\ \A username \in PartyNames, role \in PartyRoles :
            (Reads(PartyMembershipListEvent({username}, role))
             /\ session.party_list_incoming)
                => /\ session'.party = session.party
                   /\ session'.party_list_incoming
                   /\ session'.pending_party[role] =
                        <<(IF session.pending_party[role] = <<>> THEN {}
                           ELSE session.pending_party[role][1]) \cup {username}>>
                   /\ \A other \in PartyRoles \ {role} :
                        session'.pending_party[other] = session.pending_party[other]
       /\ \A event \in SessionEvents :
            (Reads(event) /\ event.type # "PARTY_ROLE_LIST"
             /\ session.party_list_incoming)
                => /\ session'.pending_party = EmptyPendingParty
                   /\ session'.party_list_incoming = (event.type = "PARTY_LIST_INCOMING")
                   /\ \A role \in PartyRoles :
                        (session.pending_party[role] # <<>>
                         /\ event \notin PartyEvents \ {PartyListIncomingEvent})
                            => session'.party[role] = session.pending_party[role][1]]_vars

\* "Bob" joined the party; the list that then came in named "Alex" as the only
\* member, and the start of a game ended the list.
C28_Witness ==
    /\ lg.event = StartBedwarsGameEvent /\ lg.lines = 4
    /\ session.party = [leader |-> {}, moderators |-> {}, members |-> {"Alex"}]
    /\ ~session.party_list_incoming

\* C29: a line that parses to no event changes nothing but the position in
\* the log: the session state, the cache, the tables of nicknames and the
\* redraw flag are as before, and the loop goes on to the next line, in
\* fast_forward_state as in process_loglines.
C29_ParseMissIgnored ==
    [][Reads(NoEvent)
        => /\ session' = session /\ cache' = cache
           /\ known_nicks' = known_nicks /\ default_database' = default_database
           /\ redraw_event' = redraw_event
           /\ lg'.pc = "parse_logline" /\ lg'.mode = lg.mode
           /\ lg'.redraw = lg.redraw]_vars

\* After a line that was no event, process_loglines has read a lobby join and
\* applied it.
C29_Witness ==
    /\ lg.after_miss /\ lg.mode = "process_loglines"
    /\ lg.event = LobbyJoinEvent("Alex") /\ "Alex" \in session.lobby_players
    /\ cache["Alex"] = PendingPlayer("Alex")

LogContents == {"Setting user: Player1", "Your new API key is key1",
                "Your new API key is key2"}
\* parse_logline on these lines: the key of a NewAPIKeyEvent, or None.
NewAPIKey(content) ==
    CASE content = "Your new API key is key1" -> "key1"
      [] content = "Your new API key is key2" -> "key2"
      [] OTHER -> None

\* MockedFile.__init__ asserts that the timestamps are sorted.
TimestampsSorted(lines) ==
    \A i \in 1..(Len(lines) - 1) : lines[i].time <= lines[i + 1].time
LinesOfLength(n) ==
    {lines \in [1..n -> {Line(time, content) : time \in 0..MaxTime,
                                              content \in LogContents}] :
        TimestampsSorted(lines)}
MockedLines == UNION {LinesOfLength(n) : n \in 0..MaxLog}

\* MockedFile._set_contents: the lines written up to now, from the last point
\* the file was cleared at (a line with no content).
RECURSIVE set_contents(_, _, _)
set_contents(lines, now, contents) ==
    IF lines = <<>> \/ Head(lines).time > now THEN contents
    ELSE set_contents(Tail(lines), now,
                      IF Head(lines).content = None THEN <<>>
                      ELSE Append(contents, Head(lines).content))
Contents(m) == set_contents(m.lines, m.current_time, <<>>)
\* MockedFile.readline: the line at the read position, "" at the end of the file
AtEndOfFile(m) == m.content_index >= Len(Contents(m))
readline(m) == IF AtEndOfFile(m) THEN "" ELSE Contents(m)[m.content_index + 1]
AfterReadline(m) ==
    IF AtEndOfFile(m) THEN m ELSE [m EXCEPT !.content_index = @ + 1]
\* _MockedTimeModule.sleep
sleep(m, seconds) == [m EXCEPT !.current_time = @ + seconds]
\* MockedPath.open: the file is read from its start; the call is recorded.
open(m) == [m EXCEPT !.content_index = 0, !.calls = Append(@, m.current_time)]

\* The key search changes the mocked file and its own locals only.
SearchUnchanged ==
    UNCHANGED <<cache, known_nicks, default_database, hypixel_api_key,
                controller_api_key, api_key_invalid, redraw_event, requests_queue,
                completed_queue, wk, ctl, started, stale, settings_vars, lock_vars,
                session_vars, so, sn>>

\* search_logfile_for_key(logpath, completed) is called.
SearchLogfileForKey(completed) ==
    /\ ks.pc = "idle"
    /\ ks' = [IdleSearch EXCEPT !.pc = "is_set", !.completed = completed]
    /\ UNCHANGED mocked
    /\ SearchUnchanged

\* The stop event is set: None is returned, without a sleep; whether the log
\* was opened before the event was looked at is not known. Otherwise the log
\* is opened and read.
SearchIsSet ==
    /\ ks.pc = "is_set"
    /\ IF ks.completed
       THEN /\ ks' = [ks EXCEPT !.pc = "returned", !.result = None]
            /\ mocked' \in {mocked, open(mocked)}
       ELSE /\ ks' = [ks EXCEPT !.pc = "readline"]
            /\ mocked' = open(mocked)
    /\ SearchUnchanged

\* The key the search remembers after a line: the key of the line if it has one.
FoundKey_KeepsFirst(found_key, content) ==
    IF found_key # None THEN found_key
    ELSE NewAPIKey(content)
FoundKey(found_key, content) ==
    IF NewAPIKey(content) # None THEN NewAPIKey(content) ELSE found_key

\* No line is left to read: the search returns the key it found, if any, and
\* sleeps otherwise.
AtEndOfLog(k) ==
    IF k.found_key # None
    THEN [k EXCEPT !.pc = "returned", !.result = k.found_key]
    ELSE [k EXCEPT !.pc = "sleep"]

\* One line of the log is read, or the end of the log is found.
SearchReadline ==
    /\ ks.pc = "readline"
    /\ ks' = IF readline(mocked) = "" THEN AtEndOfLog(ks)
             ELSE [ks EXCEPT !.found_key = FoundKey(@, readline(mocked))]
    /\ mocked' = AfterReadline(mocked)
    /\ SearchUnchanged

\* The search waits for more lines.
SearchSleep ==
    /\ ks.pc = "sleep"
    /\ mocked.current_time < MaxTime
    /\ mocked' = sleep(mocked, 1)
    /\ ks' = [ks EXCEPT !.pc = "readline"]
    /\ SearchUnchanged

\* A log with some lines, written at some times, and one call of the search.
InitSearch ==
    /\ InitOverlay({BoundTable}, "fast_forward_state")
    /\ mocked \in {MockedFile(lines) : lines \in MockedLines}
    /\ ks = IdleSearch
    /\ so = IdleSettingsObject
    /\ sn = IdleCtl

NextSearch ==
    \/ \E completed \in BOOLEAN : SearchLogfileForKey(completed)
    \/ SearchIsSet
    \/ SearchReadline
    \/ SearchSleep

SpecSearch == InitSearch /\ [][NextSearch]_vars

\* ================================================================ Settings
\* Settings.update_from(source): every field of the dict is taken over.
update_from_KeepsShowOnTab(s, source) ==
    [s EXCEPT !.hypixel_api_key = source.hypixel_api_key,
              !.antisniper_api_key = source.antisniper_api_key,
              !.use_antisniper_api = source.use_antisniper_api,
              !.known_nicks = source.known_nicks]
update_from(s, source) ==
    [s EXCEPT !.hypixel_api_key = source.hypixel_api_key,
              !.antisniper_api_key = source.antisniper_api_key,
              !.use_antisniper_api = source.use_antisniper_api,
              !.known_nicks = source.known_nicks,
              !.show_on_tab = source.show_on_tab]

Paths == {"settings.toml", "PLACEHOLDER_PATH"}
SettingsFileDicts ==
    {SettingsFileDict(hypixel, antisniper, use, kn, show) :
        hypixel \in ApiKeys, antisniper \in AntisniperKeys, use \in BOOLEAN,
        kn \in SettingsTables, show \in BOOLEAN}
AllSettings == {from_dict(source, path) : source \in SettingsFileDicts, path \in Paths}

\* The conversions change the Settings object and the dict only.
SettingsObjectUnchanged ==
    UNCHANGED <<cache, known_nicks, default_database, hypixel_api_key,
                controller_api_key, api_key_invalid, redraw_event, requests_queue,
                completed_queue, wk, ctl, started, stale, settings_vars, lock_vars,
                session_vars, mocked, ks, sn>>

\* dict = settings.to_dict()
SettingsToDict ==
    /\ so' = [so EXCEPT !.dict = to_dict(so.settings), !.op = "to_dict"]
    /\ SettingsObjectUnchanged

\* settings = Settings.from_dict(dict, path)
SettingsFromDict(path) ==
    /\ so' = [so EXCEPT !.settings = from_dict(so.dict, path), !.op = "from_dict"]
    /\ SettingsObjectUnchanged

\* settings.update_from(source)
SettingsUpdateFrom(source) ==
    /\ so' = [settings |-> update_from(so.settings, source),
              dict |-> source, op |-> "update_from"]
    /\ SettingsObjectUnchanged

\* Any settings object and any dict.
InitSettingsObject ==
    /\ InitOverlay({BoundTable}, "fast_forward_state")
    /\ mocked = IdleMocked
    /\ ks = IdleSearch
    /\ \E s \in AllSettings, source \in SettingsFileDicts :
        so = [settings |-> s, dict |-> source, op |-> "idle"]
    /\ sn = IdleCtl

NextSettingsObject ==
    \/ SettingsToDict
    \/ \E path \in Paths : SettingsFromDict(path)
    \/ \E source \in SettingsFileDicts : SettingsUpdateFrom(source)

SpecSettingsObject == InitSettingsObject /\ [][NextSettingsObject]_vars

\* ====================================================== the binding tables
\* set_nickname and update_settings called one after the other by one thread,
\* with the settings window's tables and whatever nickname the log names.
InitTables ==
    /\ InitOverlay(SettingsTables, "fast_forward_state")
    /\ mocked = IdleMocked
    /\ ks = IdleSearch
    /\ so = IdleSettingsObject
    /\ sn = IdleCtl

NextTables ==
    \/ /\ started < MaxNickOps
       /\ \E username \in AllUsernameArgs, nick \in NickArgs :
            SetNicknameCall(username, nick)
    \/ SetNicknameGetUuid
    \/ SetNicknameStore
    \/ SetNicknameDefault
    \/ SetNicknameUncacheOld
    \/ SetNicknameUncacheNick
    \/ SetNicknameRedraw
    \/ \E settings \in NewSettings : UpdateSettingsCall(settings)
    \/ UpdateSettingsCache
    \/ UpdateSettingsDatabase
    \/ UpdateSettingsRedraw
    \/ UpdateSettingsStore

SpecTables == InitTables /\ [][NextTables]_vars

\* ============================== set_nickname on the thread reading the log
\* process_event calls set_nickname for a nickname event while another thread
\* runs set_nickname or update_settings.  The blocks under settings.mutex and
\* under nick_database.mutex are one step each; update_settings is run by a
\* caller that holds settings.mutex from its first step to its last.
SettingsMutexFree == ctl.op # "update_settings"

LogThreadUnchanged ==
    UNCHANGED <<hypixel_api_key, controller_api_key, api_key_invalid, requests_queue,
                completed_queue, ctl, settings_vars, lock_vars, session_vars, mocked,
                ks, so>>

\* behaviour.py:16-34
LogSetNicknameCall(username, nick) ==
    /\ sn.pc = "idle"
    /\ started' = started + 1
    /\ sn' = IF username # None
             THEN [IdleCtl EXCEPT !.pc = "sn_get_uuid", !.op = "set_nickname",
                                  !.username = username, !.nick = nick]
             ELSE [IdleCtl EXCEPT !.pc = "sn_settings", !.op = "set_nickname",
                                  !.nick = nick, !.old_nick = nick]
    /\ UNCHANGED <<cache, wk, known_nicks, default_database, redraw_event, stale>>
    /\ LogThreadUnchanged

\* behaviour.py:25-30
LogSetNicknameGetUuid ==
    /\ sn.pc = "sn_get_uuid"
    /\ \E uuid \in get_uuid(sn.username) :
        sn' = [sn EXCEPT !.uuid = uuid,
                         !.old_nick = IF uuid = None THEN sn.nick ELSE None,
                         !.pc = "sn_settings"]
    /\ UNCHANGED <<cache, wk, known_nicks, default_database, redraw_event, started,
                   stale>>
    /\ LogThreadUnchanged

\* behaviour.py:36-58
LogSetNicknameStore ==
    /\ sn.pc = "sn_settings"
    /\ SettingsMutexFree
    /\ \E out \in SetNicknameSettings(known_nicks, sn.uuid, sn.username, sn.nick,
                                      sn.old_nick) :
        /\ known_nicks' = out.known_nicks
        /\ sn' = [sn EXCEPT !.old_nick = out.old_nick, !.pc = "sn_database"]
    /\ stale' = StaleAfter(stale, known_nicks, known_nicks')
    /\ UNCHANGED <<cache, wk, default_database, redraw_event, started>>
    /\ LogThreadUnchanged

\* behaviour.py:60-67
LogSetNicknameDefault ==
    /\ sn.pc = "sn_database"
    /\ default_database' =
            SetNicknameDatabase(default_database, sn.uuid, sn.nick, sn.old_nick)
    /\ sn' = [sn EXCEPT !.pc = IF sn.old_nick # None THEN "sn_uncache_old"
                               ELSE "sn_uncache_nick"]
    /\ UNCHANGED <<cache, wk, known_nicks, redraw_event, started, stale>>
    /\ LogThreadUnchanged

\* behaviour.py:69-71
LogSetNicknameUncacheOld ==
    /\ sn.pc = "sn_uncache_old"
    /\ cache' = uncache_player(cache, sn.old_nick)
    /\ wk' = Invalidated({sn.old_nick})
    /\ sn' = [sn EXCEPT !.pc = "sn_uncache_nick"]
    /\ UNCHANGED <<known_nicks, default_database, redraw_event, started, stale>>
    /\ LogThreadUnchanged

\* behaviour.py:73-74
LogSetNicknameUncacheNick ==
    /\ sn.pc = "sn_uncache_nick"
    /\ cache' = uncache_player(cache, sn.nick)
    /\ wk' = Invalidated({sn.nick})
    /\ sn' = [sn EXCEPT !.pc = "sn_redraw"]
    /\ UNCHANGED <<known_nicks, default_database, redraw_event, started, stale>>
    /\ LogThreadUnchanged

\* behaviour.py:76
LogSetNicknameRedraw ==
    /\ sn.pc = "sn_redraw"
    /\ redraw_event' = TRUE
    /\ sn' = IdleCtl
    /\ UNCHANGED <<cache, wk, known_nicks, default_database, started, stale>>
    /\ LogThreadUnchanged

LogSetNicknameStep ==
    \/ LogSetNicknameGetUuid
    \/ LogSetNicknameStore
    \/ LogSetNicknameDefault
    \/ LogSetNicknameUncacheOld
    \/ LogSetNicknameUncacheNick
    \/ LogSetNicknameRedraw

\* The settings window's dicts that change nothing but the table.
TableSettings ==
    {SettingsDict("key0", None, FALSE, kn) : kn \in SettingsTables}

\* A nickname event is applied while the main thread sets a nickname or
\* updates the settings.
NextConcurrent ==
    \/ /\ started < MaxNickOps
       /\ \E username \in AllUsernameArgs, nick \in NickArgs :
            \/ SetNicknameCall(username, nick)
            \/ LogSetNicknameCall(username, nick)
    \/ SetNicknameGetUuid
    \/ SetNicknameStore
    \/ SetNicknameDefault
    \/ SetNicknameUncacheOld
    \/ SetNicknameUncacheNick
    \/ SetNicknameRedraw
    \/ \E settings \in TableSettings : UpdateSettingsCall(settings)
    \/ UpdateSettingsCache
    \/ UpdateSettingsDatabase
    \/ UpdateSettingsRedraw
    \/ UpdateSettingsStore
    \/ LogSetNicknameStep

SpecConcurrent == InitTables /\ [][NextConcurrent]_vars

\* ============================================= fetches and settings updates
\* The settings window's dicts: the binding removed, or another key and the
\* nickname bound to another account.
RefetchSettings ==
    {SettingsDict("key0", None, FALSE, EmptyTable),
     SettingsDict("key1", None, FALSE, ReboundTable)}

\* The workers fetch stats while the controlling thread updates the settings
\* (Spec has them fetch stats while it sets nicknames).  The settings are
\* updated once: update_settings alone sets the redraw event here, at its end.
NextRefetch ==
    \/ \E username \in LobbyNames : Request(username)
    \/ \E w \in Workers : WorkerStep(w)
    \/ /\ ~redraw_event
       /\ \E settings \in RefetchSettings : UpdateSettingsCall(settings)
    \/ UpdateSettingsCache
    \/ UpdateSettingsDatabase
    \/ UpdateSettingsRedraw
    \/ UpdateSettingsStore

SpecRefetch == Init /\ [][NextRefetch]_vars

\* ======================================================== redraw requests
\* The lines the log thread reads here: a player joins or leaves the lobby,
\* or the own nickname is found out and process_event calls set_nickname.
RequestEvents ==
    {LobbyJoinEvent("Alex"), LobbyLeaveEvent("Alex"), NewNicknameEvent("NewNick")}

\* The settings window's dict here: the binding of OldNick is removed.
RequestSettings == {SettingsDict("key0", None, FALSE, EmptyTable)}

\* process_loglines on the thread reading the log, set_nickname and
\* update_settings on the thread of the settings window and should_redraw on
\* the main thread, each at its own pace.  The window removes a binding while
\* there is one.
NextRequests ==
    \/ \E event \in RequestEvents : ApplyLine(event)
    \/ SetRedrawEvent
    \/ \E w \in Workers :
        \/ Dequeue(w)
        \/ GetBedwarsStatsOffline(w)
        \/ PutCompleted(w)
    \/ /\ known_nicks # EmptyTable /\ started < MaxNickOps
       /\ SetNicknameCall(None, "OldNick")
    \/ SetNicknameStore
    \/ SetNicknameDefault
    \/ SetNicknameUncacheOld
    \/ SetNicknameUncacheNick
    \/ SetNicknameRedraw
    \/ /\ known_nicks # EmptyTable
       /\ \E settings \in RequestSettings : UpdateSettingsCall(settings)
    \/ UpdateSettingsCache
    \/ UpdateSettingsDatabase
    \/ UpdateSettingsRedraw
    \/ UpdateSettingsStore
    \/ ShouldRedrawIsSet
    \/ ShouldRedrawStep

\* The overlay's window calls should_redraw again and again, and a call that
\* has begun goes on; nothing is assumed of the other threads.
SpecRequests ==
    /\ InitTailing /\ [][NextRequests]_vars
    /\ WF_vars(ShouldRedrawIsSet) /\ WF_vars(ShouldRedrawStep)

\* ----------------------------------------------------------- claims C31-C40
\* The key of the last key line among the lines, None if there is none.
KeyLines(contents) == {i \in 1..Len(contents) : NewAPIKey(contents[i]) # None}
LastKey(contents) ==
    IF KeyLines(contents) = {} THEN None
    ELSE NewAPIKey(contents[CHOOSE i \in KeyLines(contents) :
                                \A j \in KeyLines(contents) : j <= i])
\* The key lines the log holds at time t.
AvailableAt(t) == KeyLines(set_contents(mocked.lines, t, <<>>))

BoundUuids == [n \in Names |-> known_nicks[n].uuid]

\* C34: between set_nickname and update_settings calls made one at a time, the
\* default database holds for every nickname the uuid known_nicks binds it to,
\* and holds no nickname that is not in known_nicks.
C34_TablesAgree ==
    ctl.pc = "idle" => default_database = BoundUuids
\* update_settings has changed the key and set_nickname has bound "NewNick" to
\* Bob's uuid, which no table of the settings window does.
C34_Witness ==
    /\ ctl.pc = "idle"
    /\ started > 0
    /\ hypixel_api_key = "key1"
    /\ known_nicks["NewNick"].uuid = "u2"
    /\ default_database["OldNick"] = None

\* C35: once set_nickname calls and update_settings calls that ran at the same
\* time have all finished, the default database holds for every nickname the
\* uuid known_nicks binds it to and no nickname that known_nicks has not.
C35_TablesAgreeAfterConcurrentCalls ==
    (ctl.pc = "idle" /\ sn.pc = "idle") => default_database = BoundUuids

\* The operation in progress has removed the key from the cache.
UncachedByOperation(key) ==
    \/ /\ ctl.op = "update_settings"
       /\ ctl.pc \in {"us_database", "us_redraw", "us_update"}
       /\ key \in UpdateSettingsUncached
    \/ /\ ctl.op = "set_nickname"
       /\ \/ ctl.pc = "sn_uncache_nick" /\ key = ctl.old_nick
          \/ ctl.pc = "sn_redraw" /\ key \in {ctl.old_nick, ctl.nick}
\* The uuid the operation in progress binds the nickname to.
NewBinding(key) ==
    IF ctl.op = "update_settings" THEN new_settings.known_nicks[key].uuid
    ELSE known_nicks[key].uuid

\* C36: a fetch that starts after update_settings or set_nickname has removed
\* its key from the cache is resolved against the new binding: when it looks
\* the nickname up in the default database, it finds the uuid the operation
\* binds the nickname to (or none, if the operation removes the binding).
C36_RefetchReadsNewBinding ==
    [][\A w \in Workers :
        (/\ wk[w].pc = "dn_default" /\ wk'[w].pc # "dn_default"
         /\ ~wk[w].invalidated
         /\ UncachedByOperation(wk[w].username))
        => nick_database_get_default(default_database, wk[w].username)
                = NewBinding(wk[w].username)]_vars

\* behaviour.py:261 - what a redraw is asked for: the stats cache, the
\* nicknames the stats are looked up with, and the lobby and party.
Displayed == <<cache, default_database, session>>

\* A step of the operation running on the thread of the settings window, and
\* a step of process_loglines.
WindowStep(pcs) == ctl.pc \in pcs /\ ctl' # ctl
LogStep(pcs) == lg.pc \in pcs /\ lg' # lg

\* should_redraw returns with this value.
ShouldRedrawReturns(redraw) ==
    sr.pc = "clear" /\ sr'.pc = "idle" /\ sr'.returned = redraw

C38_OutboundKeyIsSettingsKey ==
    ctl.pc = "idle" => controller_api_key = hypixel_api_key

\* A step of a set_nickname call that has no uuid: the username is none, or
\* its lookup has failed.
NoUuidStep(pc) ==
    /\ ctl.op = "set_nickname" /\ ctl.pc = pc /\ ctl' # ctl
    /\ ctl.uuid = None

\* C39: set_nickname with a username whose uuid lookup fails does what
\* set_nickname without a username does: the entry of the nick is removed
\* from known_nicks and from the default database, nothing is added, every
\* other entry stays, the nick is removed from the cache and the redraw event
\* is set.
C39_FailedLookupClears ==
    [][/\ (ctl.pc = "sn_get_uuid" /\ ctl'.pc # "sn_get_uuid" /\ ctl'.uuid = None)
            => /\ ctl'.pc = "sn_settings" /\ ctl'.old_nick = ctl.nick
               /\ UNCHANGED <<known_nicks, default_database, cache>>
       /\ NoUuidStep("sn_settings")
            => /\ known_nicks' = [known_nicks EXCEPT ![ctl.nick] = NoNickValue]
               /\ ctl'.pc = "sn_database" /\ ctl'.old_nick = ctl.nick
               /\ UNCHANGED <<default_database, cache>>
       /\ NoUuidStep("sn_database")
            => /\ default_database' = [default_database EXCEPT ![ctl.nick] = None]
               /\ ctl'.pc = "sn_uncache_old"
               /\ UNCHANGED <<known_nicks, cache>>
       /\ NoUuidStep("sn_uncache_old")
            => /\ cache' = [cache EXCEPT ![ctl.nick] = Absent]
               /\ ctl'.pc = "sn_uncache_nick"
               /\ UNCHANGED <<known_nicks, default_database>>
       /\ NoUuidStep("sn_uncache_nick")
            => /\ cache' = [cache EXCEPT ![ctl.nick] = Absent]
               /\ ctl'.pc = "sn_redraw"
               /\ UNCHANGED <<known_nicks, default_database>>
       /\ NoUuidStep("sn_redraw")
            => /\ redraw_event' /\ ctl'.pc = "idle"
               /\ UNCHANGED <<known_nicks, default_database, cache>>]_vars

\* The lookup of "Alex" has failed: the entry of "OldNick" is gone from
\* known_nicks and is about to go from the default database.
C39_Witness ==
    /\ ctl.op = "set_nickname" /\ ctl.pc = "sn_database"
    /\ ctl.username = "Alex" /\ ctl.uuid = None /\ ctl.nick = "OldNick"
    /\ known_nicks["OldNick"] = NoNickValue
    /\ default_database["OldNick"] = "u1"

\* The records that may be cached under a key.
KeyConsistent(key, player) ==
    \/ player.tag = "Nicked" /\ player.nick = key
    \/ player.tag = "Known" /\ player.nick = key
    \/ player.tag = "Known" /\ player.nick = None /\ player.username = key

\* C40: every record get_bedwars_stats writes to the cache under a key is a
\* NickedPlayer with this nick, a KnownPlayer with this nick, or a KnownPlayer
\* without a nick with this username; the copy written under the real
\* username of a denicked player has no nick.
C40_CacheKeyConsistency ==
    [][\A w \in Workers :
        /\ (wk[w].pc = "cache_set" /\ wk'[w].pc # "cache_set")
            => KeyConsistent(wk[w].username, cache'[wk[w].username])
        /\ (wk[w].pc = "cache_alias" /\ wk'[w].pc # "cache_alias")
            => /\ cache'[wk[w].player.username].tag = "Known"
               /\ cache'[wk[w].player.username].username = wk[w].player.username
               /\ cache'[wk[w].player.username].nick = None]_vars

\* The stats asked for under the nick "OldNick" have been written under the
\* nick, with the nick, and under the real username "Alex", without it.
C40_Witness ==
    \E w \in Workers :
        /\ wk[w].pc = "put" /\ wk[w].username = "OldNick"
        /\ cache["OldNick"] = wk[w].player
        /\ cache["OldNick"].tag = "Known" /\ cache["OldNick"].nick = "OldNick"
        /\ cache["Alex"].tag = "Known" /\ cache["Alex"].nick = None
        /\ cache["Alex"].username = "Alex"

====
